---- MODULE Spec2Model ----
(***************************************************************************)
(* Tag Assignment Data Service of tailored_offers: the tag_config and      *)
(* client_tag tables and the four store mutations of tailored_offers.py    *)
(* (update_tag_config, create_manual_tag, add_client_tag,                  *)
(* remove_client_tag).  Every mutation is one SQL statement sent over an   *)
(* AUTOCOMMIT connection inside try/except; the statement is applied by    *)
(* the store atomically or not at all.                                     *)
(***************************************************************************)
EXTENDS Integers, Sequences, FiniteSets, Bags, TLC

VARIABLES
    tag_config,     \* bag of tag_config rows (TagDefinition)
    client_tag,     \* bag of client_tag rows (ClientTagAssignment)
    id_seq,         \* last value handed out by the tag_config.id sequence
    now,            \* the store's clock; CURRENT_TIMESTAMP of the next statement
    fk_enforced,    \* whether client_tag.tag_id carries a foreign key to tag_config.id
    last,           \* history: the last call, its arguments, outcome and pre-state
    auto_tag_statistic, \* bag of auto_tag_statistic rows (AutoTagStatistic), written by the bootstrap only
    client,         \* bag of client rows, written by the bootstrap only
    pc,             \* RaceSpec: per user, "idle" | "called" (a call is in progress)
    req,            \* RaceSpec: per user, the call in progress
    ret,            \* RaceSpec: per user, what the last finished call returned
    stmt_log,       \* RaceSpec: the statements in the order the store applied them
    hex_color,      \* ContrastSpec: the colour string of the badge, a sequence of characters
    text_color,     \* ContrastSpec: the text colour each renderer chose for it
    session_state,  \* ConfigSpec: st.session_state["_database_url"], the cached URL
    local_secrets,  \* ConfigSpec: local_secrets.toml: "absent", "malformed" or its key/value pairs
    environ,        \* ConfigSpec: os.environ at the keys of DATABASE_URL_ENV_KEYS
    db_url,         \* ConfigSpec: history: the last _get_database_url call and what it saw
    query_params,   \* DashSpec: st.query_params: the tab and the client_id of the page shown
    last_selected_client, \* DashSpec: st.session_state.last_selected_client
    clients_grid,   \* DashSpec: the row selected in the mounted clients grid
    edit_auto_tag,  \* DashSpec: st.session_state.edit_auto_tag, the row being edited
    edit_manual_tag, \* DashSpec: st.session_state.edit_manual_tag, the row being edited
    handled         \* DashSpec: history: the last dashboard event and the calls it made

vars == <<tag_config, client_tag, id_seq, now, fk_enforced, last, auto_tag_statistic, client,
          pc, req, ret, stmt_log, hex_color, text_color,
          session_state, local_secrets, environ, db_url,
          query_params, last_selected_client, clients_grid, edit_auto_tag, edit_manual_tag,
          handled>>

import_vars == <<auto_tag_statistic, client>>
store_vars == <<tag_config, client_tag, id_seq, now, fk_enforced, last, import_vars>>
race_vars == <<pc, req, ret, stmt_log>>
badge_vars == <<hex_color, text_color>>
config_vars == <<session_state, local_secrets, environ, db_url>>
\* what the calls on the store leave alone
dash_vars == <<query_params, last_selected_client, clients_grid, edit_auto_tag,
               edit_manual_tag, handled>>
side_vars == <<badge_vars, config_vars, dash_vars>>

(***************************************************************************)
(* Bounds and input domains.                                               *)
(***************************************************************************)
\* Every call gets its own timestamp, starting at 1 (imported rows carry 0);
\* no call is made once the clock has reached MaxNow, so a run holds at most
\* MaxNow - 1 calls.
MaxNow == 4

Clients == {1, 2}
\* tag ids used as arguments: 1 (Automatic) and 2 (Manual) are loaded by the
\* bootstrap, 3 is the id the first create_manual_tag receives (absent until then)
TagIdArgs == {1, 2, 3}
\* tag ids assignments are added and removed for
AssignTagIds == {2, 3}

\* Python None / SQL NULL, and a supplied value
None == << >>
Some(v) == << v >>

\* what can happen to the connection during one call: nothing, lost before the
\* statement reached the store, lost after the store applied (and committed) it
ConnOutcomes == {"ok", "lost_before", "lost_after"}

(***************************************************************************)
(* Rows.                                                                   *)
(***************************************************************************)
TagRow(id, system_name, display_name, tag_type, color, description, is_active, created_at, updated_at) ==
    [id |-> id, system_name |-> system_name, display_name |-> display_name,
     tag_type |-> tag_type, color |-> color, description |-> description,
     is_active |-> is_active, created_at |-> created_at, updated_at |-> updated_at]

ClientTagRow(client_id, ont_id, tag_id, assigned_at, assigned_by, reason) ==
    [client_id |-> client_id, ont_id |-> ont_id, tag_id |-> tag_id,
     assigned_at |-> assigned_at, assigned_by |-> assigned_by, reason |-> reason]

\* number of rows (counting copies) of a bag
CountRows(bag) == BagCardinality(bag)

(***************************************************************************)
(* The schema (schema.sql, applied by init_db.py): the constraints the     *)
(* documented data model and the statements of tailored_offers.py name.    *)
(***************************************************************************)
\* tag_config.system_name is unique
SystemNameTaken(tc, system_name) == \E r \in DOMAIN tc : r.system_name = system_name

\* tag_config.id is unique (the key the id sequence feeds)
IdTaken(tc, id) == \E r \in DOMAIN tc : r.id = id

\* client_tag.tag_id references tag_config.id, when the schema enforces it
ForeignKeyViolated(tc, fk, tag_id) == fk /\ ~IdTaken(tc, tag_id)

(***************************************************************************)
(* The SQL statements.  Each yields the error the store raises ("none"     *)
(* when it raises nothing) and the table after the statement.              *)
(***************************************************************************)
\* ON CONFLICT (client_id, tag_id): the arbiter finds a row with the same pair
ConflictsOn_never(ct, row) == FALSE
ConflictsOn(ct, row) ==
    \E r \in DOMAIN ct : r.client_id = row.client_id /\ r.tag_id = row.tag_id

\* DO NOTHING: the table is left as it is
OnConflict_do_update(ct, row) ==
    BagOfAll(LAMBDA r : IF r.client_id = row.client_id /\ r.tag_id = row.tag_id
                        THEN row ELSE r, ct)
OnConflict(ct, row) == ct

\* INSERT INTO client_tag (...) VALUES (...) ON CONFLICT (client_id, tag_id) DO NOTHING
InsertClientTag_plain(ct, tc, fk, row) ==
    IF \E r \in DOMAIN ct : r.client_id = row.client_id /\ r.tag_id = row.tag_id
    THEN [err |-> "unique_violation", rows |-> ct]
    ELSE IF fk /\ ~IdTaken(tc, row.tag_id)
         THEN [err |-> "foreign_key_violation", rows |-> ct]
         ELSE [err |-> "none", rows |-> ct (+) SetToBag({row})]
InsertClientTag(ct, tc, fk, row) ==
    IF ConflictsOn(ct, row)
    THEN [err |-> "none", rows |-> OnConflict(ct, row)]
    ELSE IF ForeignKeyViolated(tc, fk, row.tag_id)
         THEN [err |-> "foreign_key_violation", rows |-> ct]
         ELSE [err |-> "none", rows |-> ct (+) SetToBag({row})]

\* DELETE FROM client_tag WHERE client_id = ... AND tag_id = ...
DeleteClientTag_by_client(ct, client_id, tag_id) ==
    [err |-> "none", rows |-> [r \in {x \in DOMAIN ct : x.client_id # client_id} |-> ct[r]]]
DeleteClientTag(ct, client_id, tag_id) ==
    [err |-> "none",
     rows |-> [r \in {x \in DOMAIN ct : ~(x.client_id = client_id /\ x.tag_id = tag_id)}
                  |-> ct[r]]]

\* the columns update_tag_config puts in its SET list: the arguments that are not None
Updates_truthy(kw) ==
    {f \in {"display_name", "color", "description"} : kw[f] # None /\ kw[f] # Some("")}
        \cup {f \in {"is_active"} : kw[f] # None /\ kw[f] # Some(FALSE)}
Updates(kw) ==
    {f \in {"display_name", "color", "is_active", "description"} : kw[f] # None}

\* "if not updates: return False"
NothingToUpdate_ignored(updates) == FALSE
NothingToUpdate(updates) == updates = {}

\* UPDATE tag_config SET <updates>, updated_at = CURRENT_TIMESTAMP WHERE id = ...
UpdateRow(r, updates, kw, ts) ==
    [r EXCEPT !.display_name = IF "display_name" \in updates THEN kw.display_name[1] ELSE @,
              !.color        = IF "color" \in updates THEN kw.color[1] ELSE @,
              !.is_active    = IF "is_active" \in updates THEN kw.is_active[1] ELSE @,
              !.description  = IF "description" \in updates THEN kw.description[1] ELSE @,
              !.updated_at   = ts]

UpdateTagConfig_manual_only(tc, tag_id, updates, kw, ts) ==
    [err |-> "none",
     rows |-> BagOfAll(LAMBDA r : IF r.id = tag_id /\ r.tag_type = "M"
                                  THEN UpdateRow(r, updates, kw, ts) ELSE r, tc)]
UpdateTagConfig_replace_all(tc, tag_id, updates, kw, ts) ==
    [err |-> "none",
     rows |-> BagOfAll(LAMBDA r : UpdateRow(r, updates, kw, ts),
                       [r \in {x \in DOMAIN tc : x.id = tag_id} |-> tc[r]])]
UpdateTagConfig(tc, tag_id, updates, kw, ts) ==
    [err |-> "none",
     rows |-> BagOfAll(LAMBDA r : IF r.id = tag_id THEN UpdateRow(r, updates, kw, ts) ELSE r, tc)]

\* INSERT INTO tag_config (system_name, display_name, tag_type, color, description,
\*   is_active, created_at, updated_at) VALUES (..., 'M', ..., CURRENT_TIMESTAMP,
\*   CURRENT_TIMESTAMP): the id comes from the sequence, which advances even
\* when the insert is refused
NewTagRow_auto(id, a, ts) ==
    TagRow(id, a.system_name, a.display_name, "A", a.color, a.description, a.is_active, ts, ts)
NewTagRow(id, a, ts) ==
    TagRow(id, a.system_name, a.display_name, "M", a.color, a.description, a.is_active, ts, ts)

InsertTagConfig(tc, seq, a, ts) ==
    LET id == seq + 1
    IN  IF SystemNameTaken(tc, a.system_name) \/ IdTaken(tc, id)
        THEN [err |-> "unique_violation", rows |-> tc, seq |-> id]
        ELSE [err |-> "none", rows |-> tc (+) SetToBag({NewTagRow(id, a, ts)}), seq |-> id]

(***************************************************************************)
(* The Python side of a call.                                              *)
(***************************************************************************)
\* the statement reached the store and was applied there
Applied(conn) == conn # "lost_before"

\* try: with engine.begin() as conn: conn.exec_driver_sql(...); return True
\* except Exception: ...; return False
TryExcept_swallow(conn, err) == "True"
TryExcept(conn, err) == IF conn = "ok" /\ err = "none" THEN "True" ELSE "False"

(***************************************************************************)
(* Arguments the calls are made with.                                      *)
(***************************************************************************)
\* ont_id, assigned_by, reason: the defaults of add_client_tag, and what the
\* "Add Tag" dialog passes
AddMeta ==
    { [ont_id |-> None, assigned_by |-> "System", reason |-> ""],
      [ont_id |-> Some("7701234567"), assigned_by |-> "Dahi Nemutlu", reason |-> "asked"] }

\* keyword arguments of update_tag_config; None is "not supplied"
Kw(display_name, color, is_active, description) ==
    [display_name |-> display_name, color |-> color,
     is_active |-> is_active, description |-> description]

UpdateKw ==
    { Kw(None, None, None, None),
      Kw(None, None, Some(FALSE), None),
      Kw(Some(""), None, None, Some("")),
      Kw(Some("Gold"), Some("ffffff"), Some(TRUE), Some("edited")) }

CreateArgs ==
    { [system_name |-> "vip", display_name |-> "VIP", color |-> "6b7280",
       description |-> "", is_active |-> TRUE],
      [system_name |-> "test_tag", display_name |-> "Test Tag", color |-> "123456",
       description |-> "", is_active |-> TRUE],
      [system_name |-> "gold", display_name |-> "VIP", color |-> "6b7280",
       description |-> "like vip", is_active |-> FALSE] }

(***************************************************************************)
(* The store after the bootstrap import: tag_config loaded with explicit   *)
(* ids, the id sequence set to MAX(id), client_tag loaded.                 *)
(***************************************************************************)
SeedTagConfig ==
    SetToBag({ TagRow(1, "churn_risk", "Churn Risk", "A", "ef4444", "set by the job", TRUE, 0, 0),
               TagRow(2, "vip", "VIP", "M", "6b7280", "set by staff", TRUE, 0, 0) })

SeedClientTags ==
    { EmptyBag,
      SetToBag({ ClientTagRow(1, None, 2, 0, "System", "import"),
                 ClientTagRow(1, None, 1, 0, "System", "import"),
                 ClientTagRow(2, Some("o2"), 2, 0, "System", "import") }) }

\* COALESCE((SELECT MAX(id) FROM tag_config), 0)
MaxId(tc) ==
    IF tc = EmptyBag THEN 0
    ELSE CHOOSE m \in {r.id : r \in DOMAIN tc} : \A r \in DOMAIN tc : r.id <= m

\* a timestamp of the statistics is <<day, hour>>
At(day, hour) == <<day, hour>>

StatRow(tag_id, assigned_count, run_started_at, run_finished_at) ==
    [tag_id |-> tag_id, assigned_count |-> assigned_count,
     run_started_at |-> run_started_at, run_finished_at |-> run_finished_at]

ClientRow(client_id, name) == [client_id |-> client_id, name |-> name]

\* the statistics the bootstrap loaded: two runs for tag 1 on day 1 and one
\* on day 3 (none on day 2), and a run recorded for tag 2
SeedStatistics ==
    SetToBag({ StatRow(1, 7, At(1, 5), At(1, 6)), StatRow(1, 5, At(1, 0), At(1, 1)),
               StatRow(1, 2, At(3, 7), At(3, 8)), StatRow(2, 9, At(2, 1), At(2, 2)) })

SeedClients == SetToBag({ ClientRow(1, "Ann"), ClientRow(2, "Bob") })

InitImported ==
    /\ auto_tag_statistic = SeedStatistics
    /\ client = SeedClients

NoCall ==
    [op |-> "none", args |-> << >>, conn |-> "not_used", err |-> "none", result |-> "none",
     at |-> 0, tag_config |-> EmptyBag, client_tag |-> EmptyBag, id_seq |-> 0,
     auto_tag_statistic |-> EmptyBag, client |-> EmptyBag]

Call(op, args, conn, err, result) ==
    [op |-> op, args |-> args, conn |-> conn, err |-> err, result |-> result,
     at |-> now, tag_config |-> tag_config, client_tag |-> client_tag, id_seq |-> id_seq,
     auto_tag_statistic |-> auto_tag_statistic, client |-> client]

InitStore ==
    /\ tag_config = SeedTagConfig
    /\ client_tag \in SeedClientTags
    /\ id_seq = MaxId(SeedTagConfig)
    /\ now = 1
    /\ fk_enforced \in BOOLEAN
    /\ last = NoCall
    /\ InitImported

Users == {"u1", "u2"}

InitRace ==
    /\ pc = [u \in Users |-> "idle"]
    /\ req = [u \in Users |-> [op |-> "none"]]
    /\ ret = [u \in Users |-> [result |-> "none", conn |-> "not_used", err |-> "none"]]
    /\ stmt_log = << >>

\* no badge has been rendered
NotRendered == [python |-> "none", js |-> "none"]

InitBadge ==
    /\ hex_color = << >>
    /\ text_color = NotRendered

DATABASE_URL_ENV_KEYS ==
    <<"DATABASE_URL", "DB_URL", "POSTGRES_URL", "POSTGRESQL_URL", "NEON_DATABASE_URL">>

EnvKeys == {DATABASE_URL_ENV_KEYS[i] : i \in DOMAIN DATABASE_URL_ENV_KEYS}

\* local_secrets.toml: not there, not TOML, or its key/value pairs
Secrets(state, contents) == [state |-> state, contents |-> contents]
NoSecrets == Secrets("absent", << >>)

\* no URL has been resolved since the configuration last changed
NotResolved == [called |-> FALSE, err |-> "none", url |-> None, cached |-> None]

\* a new session on a machine without a secrets file and without the variables
InitConfig ==
    /\ session_state = None
    /\ local_secrets = NoSecrets
    /\ environ = [k \in EnvKeys |-> None]
    /\ db_url = NotResolved

\* no dashboard event has been handled
NoEvent ==
    [event |-> "none", clicked |-> None, selected |-> << >>, calls |-> << >>,
     rendered |-> << >>, offered |-> << >>]

\* a new browser session on ?tab=Client: the client list, nothing selected,
\* no dialog open
InitDash ==
    /\ query_params = [tab |-> "Client", client_id |-> None, client_subtab |-> None,
                       client_tags_subtab |-> None]
    /\ last_selected_client = None
    /\ clients_grid = None
    /\ edit_auto_tag = None
    /\ edit_manual_tag = None
    /\ handled = NoEvent

InitSide == InitBadge /\ InitConfig /\ InitDash

Init == InitStore /\ InitRace /\ InitSide

(***************************************************************************)
(* The four store mutations, each a whole call.                            *)
(***************************************************************************)
update_tag_config(tag_id, kw, conn) ==
    LET updates == Updates(kw)
        st == UpdateTagConfig(tag_config, tag_id, updates, kw, now)
    IN  /\ now < MaxNow
        /\ IF NothingToUpdate(updates)
           THEN /\ last' = Call("update_tag_config", [tag_id |-> tag_id, kw |-> kw],
                                "not_used", "none", "False")
                /\ tag_config' = tag_config
           ELSE /\ last' = Call("update_tag_config", [tag_id |-> tag_id, kw |-> kw], conn,
                                IF Applied(conn) THEN st.err ELSE "none",
                                TryExcept(conn, IF Applied(conn) THEN st.err ELSE "none"))
                /\ tag_config' = IF Applied(conn) THEN st.rows ELSE tag_config
        /\ now' = now + 1
        /\ UNCHANGED <<client_tag, id_seq, fk_enforced, import_vars>>

create_manual_tag(a, conn) ==
    LET st == InsertTagConfig(tag_config, id_seq, a, now)
        err == IF Applied(conn) THEN st.err ELSE "none"
    IN  /\ now < MaxNow
        /\ last' = Call("create_manual_tag", a, conn, err, TryExcept(conn, err))
        /\ tag_config' = IF Applied(conn) THEN st.rows ELSE tag_config
        /\ id_seq' = IF Applied(conn) THEN st.seq ELSE id_seq
        /\ now' = now + 1
        /\ UNCHANGED <<client_tag, fk_enforced, import_vars>>

add_client_tag(client_id, tag_id, m, conn) ==
    LET row == ClientTagRow(client_id, m.ont_id, tag_id, now, m.assigned_by, m.reason)
        st == InsertClientTag(client_tag, tag_config, fk_enforced, row)
        err == IF Applied(conn) THEN st.err ELSE "none"
    IN  /\ now < MaxNow
        /\ last' = Call("add_client_tag", row, conn, err, TryExcept(conn, err))
        /\ client_tag' = IF Applied(conn) THEN st.rows ELSE client_tag
        /\ now' = now + 1
        /\ UNCHANGED <<tag_config, id_seq, fk_enforced, import_vars>>

remove_client_tag(client_id, tag_id, conn) ==
    LET st == DeleteClientTag(client_tag, client_id, tag_id)
        err == IF Applied(conn) THEN st.err ELSE "none"
    IN  /\ now < MaxNow
        /\ last' = Call("remove_client_tag", [client_id |-> client_id, tag_id |-> tag_id],
                        conn, err, TryExcept(conn, err))
        /\ client_tag' = IF Applied(conn) THEN st.rows ELSE client_tag
        /\ now' = now + 1
        /\ UNCHANGED <<tag_config, id_seq, fk_enforced, import_vars>>

Next ==
    \/ \E t \in TagIdArgs, kw \in UpdateKw, conn \in ConnOutcomes :
           update_tag_config(t, kw, conn) /\ UNCHANGED <<race_vars, side_vars>>
    \/ \E a \in CreateArgs, conn \in ConnOutcomes :
           create_manual_tag(a, conn) /\ UNCHANGED <<race_vars, side_vars>>
    \/ \E c \in Clients, t \in AssignTagIds, m \in AddMeta, conn \in ConnOutcomes :
           add_client_tag(c, t, m, conn) /\ UNCHANGED <<race_vars, side_vars>>
    \/ \E c \in Clients, t \in AssignTagIds, conn \in ConnOutcomes :
           remove_client_tag(c, t, conn) /\ UNCHANGED <<race_vars, side_vars>>

Spec == Init /\ [][Next]_vars

(***************************************************************************)
(* Reads.  A query is one statement on its own connection; a read that     *)
(* cannot reach the database, or loses it, returns an empty frame.         *)
(***************************************************************************)
\* WHERE tag_type = %(tag_type)s
TagsOfType_other(tc, t) ==
    [r \in {x \in DOMAIN tc : x.tag_type # t} |-> tc[r]]
TagsOfType(tc, t) ==
    [r \in {x \in DOMAIN tc : x.tag_type = t} |-> tc[r]]

\* the order of the tag_type values: 'A' sorts before 'M'
TypeRank(t) == IF t = "A" THEN 0 ELSE 1

\* ORDER BY id
ById(r, x) == r.id <= x.id

\* ORDER BY tag_type, id
ByTypeThenId_id_only(r, x) == r.id <= x.id
ByTypeThenId(r, x) ==
    \/ TypeRank(r.tag_type) < TypeRank(x.tag_type)
    \/ TypeRank(r.tag_type) = TypeRank(x.tag_type) /\ r.id <= x.id

RECURSIVE OrderById(_)
OrderById(rows) ==
    IF rows = EmptyBag THEN << >>
    ELSE LET first == CHOOSE r \in DOMAIN rows : \A x \in DOMAIN rows : ById(r, x)
         IN  <<first>> \o OrderById(rows (-) SetToBag({first}))

RECURSIVE OrderByTypeThenId(_)
OrderByTypeThenId(rows) ==
    IF rows = EmptyBag THEN << >>
    ELSE LET first == CHOOSE r \in DOMAIN rows : \A x \in DOMAIN rows : ByTypeThenId(r, x)
         IN  <<first>> \o OrderByTypeThenId(rows (-) SetToBag({first}))

\* "if tag_type:" is false for None and for the empty string
Truthy(tag_type) == tag_type # None /\ tag_type # Some("")

fetch_tag_config(tc, tag_type, conn) ==
    IF conn # "ok" THEN << >>
    ELSE IF Truthy(tag_type) THEN OrderById(TagsOfType(tc, tag_type[1]))
         ELSE OrderByTypeThenId(tc)

\* FROM client_tag ct LEFT JOIN tag_config tc ON ct.tag_id = tc.id
\* WHERE tc.tag_type = 'M': the joined rows that remain, as (ct, tc) pairs
\* (a client_tag row without a tag_config row joins to NULLs and is dropped)
ManualJoin(tc, ct) ==
    {<<a, t>> \in (DOMAIN ct) \X (DOMAIN tc) : a.tag_id = t.id /\ t.tag_type = "M"}

RECURSIVE SumCopies(_, _, _)
SumCopies(pairs, tc, ct) ==
    IF pairs = {} THEN 0
    ELSE LET p == CHOOSE x \in pairs : TRUE
         IN  ct[p[1]] * tc[p[2]] + SumCopies(pairs \ {p}, tc, ct)

\* GROUP BY tc.display_name, tc.color with COUNT(ct.tag_id)
GroupCounts(tc, ct) ==
    LET joined == ManualJoin(tc, ct)
        keys == {<<p[2].display_name, p[2].color>> : p \in joined}
    IN  { [display_name |-> k[1], color |-> k[2],
           tag_count |-> SumCopies({p \in joined : p[2].display_name = k[1]
                                                   /\ p[2].color = k[2]}, tc, ct)]
          : k \in keys }

\* ORDER BY tag_count ASC: every arrangement of the groups with the counts
\* not decreasing (groups with equal counts come in any order)
fetch_manual_tag_counts(tc, ct, conn) ==
    IF conn # "ok" THEN {<< >>}
    ELSE LET groups == GroupCounts(tc, ct)
             n == Cardinality(groups)
         IN  { f \in [1..n -> groups] :
                   /\ \A i, j \in 1..n : i # j => f[i] # f[j]
                   /\ \A i, j \in 1..n : i < j => f[i].tag_count <= f[j].tag_count }

\* LEFT JOIN tag_config tc ON x.tag_id = tc.id: the tag_config rows a row
\* joins to; without a match it joins once, to NULLs
NullTag == << >>
LeftJoinTag_inner(tc, tag_id) == {<<t>> : t \in {x \in DOMAIN tc : x.id = tag_id}}
LeftJoinTag(tc, tag_id) ==
    IF \E t \in DOMAIN tc : t.id = tag_id
    THEN {<<t>> : t \in {x \in DOMAIN tc : x.id = tag_id}}
    ELSE {NullTag}

\* how many copies of the joined row (a, j) the join produces
JoinCopies(tc, rows, a, j) == rows[a] * (IF j = NullTag THEN 1 ELSE tc[j[1]])

\* FROM client_tag ct LEFT JOIN tag_config tc ON ct.tag_id = tc.id
\* WHERE ct.client_id = %(client_id)s: the joined rows, copies numbered
ClientJoin(tc, ct, client_id) ==
    UNION { UNION { { <<a, j, k>> : k \in 1..JoinCopies(tc, ct, a, j) }
                    : j \in LeftJoinTag(tc, a.tag_id) }
            : a \in {x \in DOMAIN ct : x.client_id = client_id} }

\* the select list of fetch_client_tags; a column of a missing tag is NULL
ClientTagColumns(a, j) ==
    [tag_id |-> a.tag_id, assigned_at |-> a.assigned_at,
     assigned_by |-> a.assigned_by, reason |-> a.reason,
     system_name |-> IF j = NullTag THEN None ELSE Some(j[1].system_name),
     display_name |-> IF j = NullTag THEN None ELSE Some(j[1].display_name),
     tag_type |-> IF j = NullTag THEN None ELSE Some(j[1].tag_type),
     color |-> IF j = NullTag THEN None ELSE Some(j[1].color),
     description |-> IF j = NullTag THEN None ELSE Some(j[1].description)]

\* ORDER BY ct.assigned_at DESC: every arrangement of the joined rows with
\* assigned_at not increasing (rows of one instant come in any order)
fetch_client_tags(tc, ct, client_id, conn) ==
    IF conn # "ok" THEN {<< >>}
    ELSE LET joined == ClientJoin(tc, ct, client_id)
             n == Cardinality(joined)
         IN  { [i \in 1..n |-> ClientTagColumns(f[i][1], f[i][2])] :
                 f \in { g \in [1..n -> joined] :
                           /\ \A i, j \in 1..n : i # j => g[i] # g[j]
                           /\ \A i, j \in 1..n :
                                 i < j => g[i][1].assigned_at >= g[j][1].assigned_at } }

\* FROM auto_tag_statistic ats LEFT JOIN tag_config tc ON ats.tag_id = tc.id
\* WHERE tc.tag_type = 'A' (NULL = 'A' is not true): the joined rows that
\* remain, copies numbered
IsAutomatic_any(j) == TRUE
IsAutomatic(j) == j # NullTag /\ j[1].tag_type = "A"

StatJoin(tc, ats) ==
    UNION { UNION { { <<a, j, k>> : k \in 1..JoinCopies(tc, ats, a, j) }
                    : j \in {x \in LeftJoinTag(tc, a.tag_id) : IsAutomatic(x)} }
            : a \in DOMAIN ats }

\* timestamp order, and ats.run_finished_at::date
NotAfter(t1, t2) == t1[1] < t2[1] \/ (t1[1] = t2[1] /\ t1[2] <= t2[2])
Date(t) == t[1]

\* the select list of fetch_auto_tag_statistics
StatColumns(a, j) ==
    [date |-> Date(a.run_finished_at), assigned_count |-> a.assigned_count,
     display_name |-> IF j = NullTag THEN None ELSE Some(j[1].display_name),
     color |-> IF j = NullTag THEN None ELSE Some(j[1].color)]

\* ORDER BY ats.run_finished_at ASC: every arrangement of the joined rows
\* with run_finished_at not decreasing
fetch_auto_tag_statistics(tc, ats, conn) ==
    IF conn # "ok" THEN {<< >>}
    ELSE LET joined == StatJoin(tc, ats)
             n == Cardinality(joined)
         IN  { [i \in 1..n |-> StatColumns(f[i][1], f[i][2])] :
                 f \in { g \in [1..n -> joined] :
                           /\ \A i, j \in 1..n : i # j => g[i] # g[j]
                           /\ \A i, j \in 1..n :
                                 i < j => NotAfter(g[i][1].run_finished_at,
                                                   g[j][1].run_finished_at) } }

(***************************************************************************)
(* The bootstrap (init_db.py main) on a database the dashboard then works  *)
(* on (specification BootSpec).  Drop, schema, loads and the sequence      *)
(* reset run in one transaction: an error in any step rolls all of it back *)
(* and the script exits with 1.                                            *)
(***************************************************************************)
\* contents of tag_config.csv (with explicit ids)
TagConfigCsvs ==
    { EmptyBag,
      SetToBag({ TagRow(1, "churn_risk", "Churn Risk", "A", "ef4444", "set by the job", TRUE, 0, 0) }),
      SetToBag({ TagRow(5, "vip", "VIP", "M", "6b7280", "set by staff", TRUE, 0, 0) }),
      SetToBag({ TagRow(2, "vip", "VIP", "M", "6b7280", "set by staff", TRUE, 0, 0),
                 TagRow(7, "churn_risk", "Churn Risk", "A", "ef4444", "set by the job", TRUE, 0, 0) }),
      SeedTagConfig }

\* contents of client_tag.csv
ClientTagCsvs ==
    { EmptyBag,
      SetToBag({ ClientTagRow(1, None, 2, 0, "System", "import") }) }

\* COPY tag_config (id, system_name, ...) FROM STDIN
CopyTagConfig(csv) ==
    IF \E r \in DOMAIN csv :
          \/ csv[r] > 1
          \/ \E x \in DOMAIN csv : x # r /\ (x.id = r.id \/ x.system_name = r.system_name)
    THEN [err |-> "unique_violation", rows |-> EmptyBag]
    ELSE [err |-> "none", rows |-> csv]

\* SELECT setval(pg_get_serial_sequence('tag_config', 'id'),
\*               COALESCE((SELECT MAX(id) FROM tag_config), 0)):
\* the sequence starts at 1, so setval refuses 0
ResetSequence_skipped(tc) == [err |-> "none", seq |-> 0]
ResetSequence(tc) ==
    IF tc = EmptyBag
    THEN [err |-> "out_of_bounds", seq |-> 0]
    ELSE [err |-> "none", seq |-> MaxId(tc)]

\* COPY client_tag (client_id, ont_id, tag_id, ...) FROM STDIN
CopyClientTag(csv, tc, fk) ==
    IF \E r \in DOMAIN csv :
          \/ csv[r] > 1
          \/ \E x \in DOMAIN csv : x # r /\ x.client_id = r.client_id /\ x.tag_id = r.tag_id
    THEN [err |-> "unique_violation", rows |-> EmptyBag]
    ELSE IF \E r \in DOMAIN csv : ForeignKeyViolated(tc, fk, r.tag_id)
         THEN [err |-> "foreign_key_violation", rows |-> EmptyBag]
         ELSE [err |-> "none", rows |-> csv]

\* contents of auto_tag_statistic.csv
StatisticCsvs ==
    { SeedStatistics,
      SetToBag({ StatRow(7, 4, At(1, 2), At(1, 3)) })
         (+) SetToBag({ StatRow(7, 4, At(1, 2), At(1, 3)) })
         (+) SetToBag({ StatRow(2, 9, At(1, 0), At(1, 1)), StatRow(9, 1, At(2, 0), At(2, 1)) }) }

\* COPY auto_tag_statistic (tag_id, assigned_count, ...) FROM STDIN
CopyStatistic(csv, tc, fk) ==
    IF \E r \in DOMAIN csv : ForeignKeyViolated(tc, fk, r.tag_id)
    THEN [err |-> "foreign_key_violation", rows |-> EmptyBag]
    ELSE [err |-> "none", rows |-> csv]

\* the files main looks for next to the script
AllFiles == {"schema.sql", "tag_config.csv", "client.csv", "client_tag.csv",
             "auto_tag_statistic.csv", "db_url.toml"}

\* the checks main makes before anything else, in their order
RequiredFiles_schema_only == <<"schema.sql">>
RequiredFiles == <<"schema.sql", "tag_config.csv", "client_tag.csv", "auto_tag_statistic.csv">>

MissingFile(files) ==
    IF \A i \in DOMAIN RequiredFiles : RequiredFiles[i] \in files THEN "none"
    ELSE LET i == CHOOSE k \in DOMAIN RequiredFiles :
                     /\ RequiredFiles[k] \notin files
                     /\ \A j \in DOMAIN RequiredFiles : j < k => RequiredFiles[j] \in files
         IN  RequiredFiles[i]

\* load_db_url: db_url.toml is opened and cfg["database"]["url"] read
load_db_url(files, config) ==
    IF "db_url.toml" \notin files THEN "FileNotFoundError"
    ELSE IF config = "no_url" THEN "Missing [database].url in db_url.toml"
    ELSE "none"

\* COPY client (client_id, ...) FROM STDIN, when client.csv is there
CopyClient(files, csv) ==
    IF "client.csv" \in files THEN [err |-> "none", rows |-> csv]
    ELSE [err |-> "none", rows |-> EmptyBag]

\* the first error of the steps, in the order main runs them
FirstError(errs) ==
    IF \A i \in DOMAIN errs : errs[i] = "none" THEN "none"
    ELSE errs[CHOOSE i \in DOMAIN errs :
                 errs[i] # "none" /\ \A j \in DOMAIN errs : j < i => errs[j] = "none"]

\* one run of the script: what it finds on disk and how the connection fares
BootRun(files, config, tag_csv, ct_csv, stat_csv, conn) ==
    [files |-> files, config |-> config, tag_config_csv |-> tag_csv,
     client_tag_csv |-> ct_csv, auto_tag_statistic_csv |-> stat_csv,
     client_csv |-> SeedClients, conn |-> conn]

\* a tag_config.csv unlike the seeded table, for the runs that go wrong
OtherTags == SetToBag({ TagRow(5, "vip", "VIP", "M", "6b7280", "set by staff", TRUE, 0, 0) })

BootRuns ==
    { BootRun(AllFiles, "url", t, c, st, "ok") :
          t \in TagConfigCsvs, c \in ClientTagCsvs, st \in StatisticCsvs }
    \cup { BootRun(AllFiles \ {f}, "url", OtherTags, EmptyBag, EmptyBag, "ok") : f \in AllFiles }
    \cup { BootRun(AllFiles, "no_url", OtherTags, EmptyBag, EmptyBag, "ok") }
    \cup { BootRun(AllFiles, "url", OtherTags, EmptyBag, EmptyBag, conn) :
              conn \in ConnOutcomes }

\* the steps inside "with psycopg.connect(db_url) as conn", one transaction
\* that conn.commit() ends; an exception rolls all of it back
Transaction_committed_stepwise(run, fk) ==
    LET clients == CopyClient(run.files, run.client_csv)
        tags == CopyTagConfig(run.tag_config_csv)
        reset == ResetSequence(tags.rows)
        cts == CopyClientTag(run.client_tag_csv, tags.rows, fk)
        stats == CopyStatistic(run.auto_tag_statistic_csv, tags.rows, fk)
    IN  [err |-> FirstError(<<clients.err, tags.err, reset.err, cts.err, stats.err>>),
         applied |-> tags.err = "none",
         client |-> clients.rows, tag_config |-> tags.rows, id_seq |-> reset.seq,
         client_tag |-> cts.rows, auto_tag_statistic |-> stats.rows]
Transaction(run, fk) ==
    LET clients == CopyClient(run.files, run.client_csv)
        tags == CopyTagConfig(run.tag_config_csv)
        reset == ResetSequence(tags.rows)
        cts == CopyClientTag(run.client_tag_csv, tags.rows, fk)
        stats == CopyStatistic(run.auto_tag_statistic_csv, tags.rows, fk)
        err == FirstError(<<clients.err, tags.err, reset.err, cts.err, stats.err>>)
    IN  [err |-> err, applied |-> err = "none",
         client |-> clients.rows, tag_config |-> tags.rows, id_seq |-> reset.seq,
         client_tag |-> cts.rows, auto_tag_statistic |-> stats.rows]

\* main and the __main__ guard: the exit code is 0 when main returns, 1 with
\* the message on stderr when it raises (SystemExit with a message included)
init_db_main(run) ==
    LET missing == MissingFile(run.files)
        url == load_db_url(run.files, run.config)
        early == IF missing # "none" THEN "Missing " \o missing ELSE url
        tx == Transaction(run, fk_enforced)
        connected == early = "none" /\ run.conn # "lost_before"
        committed == connected /\ tx.applied
        err == IF early # "none" THEN early
               ELSE IF run.conn = "lost_before" THEN "connection"
               ELSE IF tx.err # "none" THEN tx.err
               ELSE IF run.conn = "lost_after" THEN "connection"
               ELSE "none"
    IN  /\ now < MaxNow
        /\ last' = Call("init_db", run, run.conn, err, IF err = "none" THEN "0" ELSE "1")
        /\ tag_config' = IF committed THEN tx.tag_config ELSE tag_config
        /\ client_tag' = IF committed THEN tx.client_tag ELSE client_tag
        /\ id_seq' = IF committed THEN tx.id_seq ELSE id_seq
        /\ auto_tag_statistic' = IF committed THEN tx.auto_tag_statistic ELSE auto_tag_statistic
        /\ client' = IF committed THEN tx.client ELSE client
        /\ now' = now + 1
        /\ UNCHANGED fk_enforced

BootNext ==
    \/ \E run \in BootRuns :
           init_db_main(run) /\ UNCHANGED <<race_vars, side_vars>>
    \/ \E a \in CreateArgs, conn \in ConnOutcomes :
           create_manual_tag(a, conn) /\ UNCHANGED <<race_vars, side_vars>>

BootSpec == Init /\ [][BootNext]_vars

(***************************************************************************)
(* The contrast rule of the badges (specification ContrastSpec): the       *)
(* Python get_contrast_color and the JavaScript rule embedded in the grid  *)
(* renderers, applied to a colour string.  A string is a sequence of       *)
(* one-character strings.                                                  *)
(***************************************************************************)
\* the longest colour string typed character by character
MaxLen == 8

Alphabet == {"#", "0", "f", "g"}

Typed == UNION {[1..n -> Alphabet] : n \in 0..MaxLen}

Examples ==
    { <<"6", "b", "7", "2", "8", "0">>,
      <<"#", "6", "b", "7", "2", "8", "0">>,
      <<"#", "e", "f", "4", "4", "4", "4">>,
      <<"d", "a", "3", "a", "f", "8">>,
      <<"#", "D", "A", "3", "A", "F", "8">>,
      <<"8", "0", "8", "0", "8", "0">>,
      <<"n", "o", "t", "-", "a", "-", "c", "o", "l", "o", "r">>,
      <<"f", "f", "f", "f", " ", "f">>,
      <<" ", "f", "f", " ", "f", " ">>,
      <<"+", "f", "-", "f", "f", "f">>,
      <<"f", "f", "f", "f", "0", "x">>,
      <<"f", "f", "#", "f", "f", "f", "f">> }

ColorStrings == Typed \cup Examples

HexDigits == <<"0", "1", "2", "3", "4", "5", "6", "7", "8", "9", "a", "b", "c", "d", "e", "f">>
UpperDigits == <<"A", "B", "C", "D", "E", "F">>

IsHexDigit(ch) ==
    \/ \E i \in DOMAIN HexDigits : HexDigits[i] = ch
    \/ \E i \in DOMAIN UpperDigits : UpperDigits[i] = ch

DigitValue(ch) ==
    IF \E i \in DOMAIN HexDigits : HexDigits[i] = ch
    THEN (CHOOSE i \in DOMAIN HexDigits : HexDigits[i] = ch) - 1
    ELSE (CHOOSE i \in DOMAIN UpperDigits : UpperDigits[i] = ch) + 9

IsSpace(ch) == ch = " "
IsSign(ch) == ch \in {"+", "-"}

RECURSIVE HexValue(_)
HexValue(s) ==
    IF s = << >> THEN 0
    ELSE 16 * HexValue(SubSeq(s, 1, Len(s) - 1)) + DigitValue(s[Len(s)])

RECURSIVE LTrim(_)
LTrim(s) == IF s # << >> /\ IsSpace(Head(s)) THEN LTrim(Tail(s)) ELSE s

RECURSIVE RTrim(_)
RTrim(s) ==
    IF s # << >> /\ IsSpace(s[Len(s)]) THEN RTrim(SubSeq(s, 1, Len(s) - 1)) ELSE s

\* the digits after an optional sign and an optional 0x / 0X prefix
Unsigned(s) == IF s # << >> /\ IsSign(Head(s)) THEN Tail(s) ELSE s
Unprefixed(s) ==
    IF Len(s) >= 2 /\ s[1] = "0" /\ s[2] \in {"x", "X"} THEN Tail(Tail(s)) ELSE s
Signed(s, v) == IF s # << >> /\ Head(s) = "-" THEN 0 - v ELSE v

\* s[a:b] and s.substr(a, b - a): never out of range, short at the end of s
Slice(s, a, b) ==
    IF a >= Len(s) THEN << >>
    ELSE SubSeq(s, a + 1, IF b < Len(s) THEN b ELSE Len(s))

\* hex_color.lstrip('#'): every leading '#' goes
RECURSIVE LStrip(_)
LStrip(s) == IF s # << >> /\ Head(s) = "#" THEN LStrip(Tail(s)) ELSE s

\* int(s, 16) of a slice of at most two characters: surrounding whitespace
\* and a sign are accepted, the rest has to be hex digits, at least one
PyInt(s) ==
    LET t == RTrim(LTrim(s))
        digits == Unprefixed(Unsigned(t))
    IN  IF digits # << >> /\ \A i \in DOMAIN digits : IsHexDigit(digits[i])
        THEN [exc |-> "none", val |-> Signed(t, HexValue(digits))]
        ELSE [exc |-> "ValueError", val |-> 0]

\* (0.299 * r + 0.587 * g + 0.114 * b) / 255 > 0.5 in double arithmetic.
\* For channels in -15 .. 255 the doubles decide as the exact sum does
\* except at the channels of RoundedUp, where the exact value is 0.5 and the
\* computed one is 0.5000000000000001.
RoundedUp == { <<218, 58, 248>> }
ExceedsHalf(r, g, b) ==
    \/ 299 * r + 587 * g + 114 * b > 127500
    \/ <<r, g, b>> \in RoundedUp

\* except (ValueError, IndexError)
Caught_index_only(exc) == exc = "IndexError"
Caught(exc) == exc \in {"ValueError", "IndexError"}

get_contrast_color(s) ==
    LET hex == LStrip(s)
        r == PyInt(Slice(hex, 0, 2))
        g == PyInt(Slice(hex, 2, 4))
        b == PyInt(Slice(hex, 4, 6))
        exc == IF r.exc # "none" THEN r.exc ELSE IF g.exc # "none" THEN g.exc ELSE b.exc
    IN  IF exc # "none"
        THEN IF Caught(exc) THEN "#ffffff" ELSE exc
        ELSE IF ExceedsHalf(r.val, g.val, b.val) THEN "#000000" ELSE "#ffffff"

\* hexColor.replace('#', ''): the first '#' goes, wherever it is
RECURSIVE Replace(_)
Replace(s) ==
    IF s = << >> THEN << >>
    ELSE IF Head(s) = "#" THEN Tail(s) ELSE <<Head(s)>> \o Replace(Tail(s))

RECURSIVE HexPrefix(_)
HexPrefix(s) ==
    IF s # << >> /\ IsHexDigit(Head(s)) THEN <<Head(s)>> \o HexPrefix(Tail(s)) ELSE << >>

\* parseInt(s, 16): leading whitespace and a sign are skipped, the longest
\* run of hex digits is the number, NaN when there is none
ParseInt(s) ==
    LET t == LTrim(s)
        digits == HexPrefix(Unprefixed(Unsigned(t)))
    IN  IF digits # << >>
        THEN [nan |-> FALSE, val |-> Signed(t, HexValue(digits))]
        ELSE [nan |-> TRUE, val |-> 0]

\* the rule as the grid renderers carry it; a NaN channel makes the
\* luminance NaN, and NaN > 0.5 is false
getContrastColor(s) ==
    LET hex == Replace(s)
        r == ParseInt(Slice(hex, 0, 2))
        g == ParseInt(Slice(hex, 2, 4))
        b == ParseInt(Slice(hex, 4, 6))
    IN  IF r.nan \/ g.nan \/ b.nan THEN "#ffffff"
        ELSE IF ExceedsHalf(r.val, g.val, b.val) THEN "#000000" ELSE "#ffffff"

ContrastInit ==
    /\ tag_config = SeedTagConfig
    /\ client_tag = EmptyBag
    /\ id_seq = MaxId(SeedTagConfig)
    /\ now = 1
    /\ fk_enforced = TRUE
    /\ last = NoCall
    /\ InitImported
    /\ InitRace
    /\ hex_color \in ColorStrings
    /\ text_color = NotRendered
    /\ InitConfig
    /\ InitDash

\* the client detail page renders the badge in Python
RenderPython ==
    /\ text_color.python = "none"
    /\ text_color' = [text_color EXCEPT !.python = get_contrast_color(hex_color)]
    /\ UNCHANGED <<hex_color, store_vars, race_vars, config_vars, dash_vars>>

\* a grid renders the badge in the browser
RenderJs ==
    /\ text_color.js = "none"
    /\ text_color' = [text_color EXCEPT !.js = getContrastColor(hex_color)]
    /\ UNCHANGED <<hex_color, store_vars, race_vars, config_vars, dash_vars>>

ContrastNext == RenderPython \/ RenderJs

ContrastSpec == ContrastInit /\ [][ContrastNext]_vars

(***************************************************************************)
(* The connection URL of the dashboard (specification ConfigSpec).  A URL  *)
(* is a sequence of pieces: a scheme, separators, parameter names and      *)
(* opaque text, each piece a string the code never looks into or splits.   *)
(***************************************************************************)
Blank == " "
Canonical == "postgresql+psycopg://"

\* str.lower() of a piece
Lower(piece) ==
    CASE piece = "POSTGRES://" -> "postgres://"
      [] piece = "SSLMODE=" -> "sslmode="
      [] OTHER -> piece

\* the mappings dict of _normalize_database_url, in its order
Mappings == <<"postgres://", "postgresql://", "postgresql+asyncpg://">>

\* "sslmode=" in raw.lower(), and '?' in raw
HasSslmode(raw) == \E i \in DOMAIN raw : Lower(raw[i]) = "sslmode="
HasQuery(raw) == \E i \in DOMAIN raw : raw[i] = "?"

_normalize_database_url(url) ==
    LET raw == RTrim(LTrim(url))
        mapped == IF raw # << >> /\ \E i \in DOMAIN Mappings : Lower(raw[1]) = Mappings[i]
                  THEN <<Canonical>> \o Tail(raw)
                  ELSE raw
    IN  IF raw = << >> THEN [err |-> "ValueError", url |-> None]
        ELSE IF HasSslmode(mapped) THEN [err |-> "none", url |-> Some(mapped)]
        ELSE [err |-> "none",
              url |-> Some(mapped \o <<IF HasQuery(mapped) THEN "&" ELSE "?",
                                       "sslmode=", "require">>)]

\* the first key of DATABASE_URL_ENV_KEYS a mapping has
FirstKey(keys) ==
    DATABASE_URL_ENV_KEYS[CHOOSE i \in DOMAIN DATABASE_URL_ENV_KEYS :
        /\ DATABASE_URL_ENV_KEYS[i] \in keys
        /\ \A j \in DOMAIN DATABASE_URL_ENV_KEYS : j < i => DATABASE_URL_ENV_KEYS[j] \notin keys]

\* str(mapping[key]).strip() of the first key the mapping has, else None
_extract_database_url_from_mapping(mapping) ==
    IF DOMAIN mapping \cap EnvKeys = {} THEN None
    ELSE Some(RTrim(LTrim(mapping[FirstKey(DOMAIN mapping)])))

_load_local_database_url(secrets) ==
    IF secrets.state = "absent" THEN [err |-> "none", url |-> None]
    ELSE IF secrets.state = "malformed" THEN [err |-> "RuntimeError", url |-> None]
    ELSE LET url == _extract_database_url_from_mapping(secrets.contents)
         IN  IF url = None \/ url = Some(<< >>)
             THEN [err |-> "RuntimeError", url |-> None]
             ELSE [err |-> "none", url |-> url]

\* "if value:" of an optional string
NonEmpty(value) == value # None /\ value # Some(<< >>)

\* for key in DATABASE_URL_ENV_KEYS: env_val = os.getenv(key); if env_val: ...
FirstEnv_last(env) ==
    IF \A k \in EnvKeys : ~NonEmpty(env[k]) THEN None
    ELSE env[DATABASE_URL_ENV_KEYS[CHOOSE i \in DOMAIN DATABASE_URL_ENV_KEYS :
                /\ NonEmpty(env[DATABASE_URL_ENV_KEYS[i]])
                /\ \A j \in DOMAIN DATABASE_URL_ENV_KEYS :
                      j > i => ~NonEmpty(env[DATABASE_URL_ENV_KEYS[j]])]]
FirstEnv(env) ==
    IF \A k \in EnvKeys : ~NonEmpty(env[k]) THEN None
    ELSE env[DATABASE_URL_ENV_KEYS[CHOOSE i \in DOMAIN DATABASE_URL_ENV_KEYS :
                /\ NonEmpty(env[DATABASE_URL_ENV_KEYS[i]])
                /\ \A j \in DOMAIN DATABASE_URL_ENV_KEYS :
                      j < i => ~NonEmpty(env[DATABASE_URL_ENV_KEYS[j]])]]

\* what _get_database_url returns or raises, and what it leaves in the cache
Resolve(cached, secrets, env) ==
    IF NonEmpty(cached) THEN [err |-> "none", url |-> cached, cache |-> cached]
    ELSE LET local == _load_local_database_url(secrets)
         IN  IF local.err # "none" THEN [err |-> local.err, url |-> None, cache |-> cached]
             ELSE IF NonEmpty(local.url)
             THEN LET n == _normalize_database_url(local.url[1])
                  IN  [err |-> n.err, url |-> n.url,
                       cache |-> IF n.err = "none" THEN n.url ELSE cached]
             ELSE IF FirstEnv(env) = None
             THEN [err |-> "RuntimeError", url |-> None, cache |-> cached]
             ELSE LET n == _normalize_database_url(FirstEnv(env)[1])
                  IN  [err |-> n.err, url |-> n.url,
                       cache |-> IF n.err = "none" THEN n.url ELSE cached]

\* URLs somebody may put into DATABASE_URL
UrlInputs ==
    { <<"postgres://", "u@h/db">>,
      <<"postgresql://", "u@h/db">>,
      <<"postgresql+asyncpg://", "u@h/db">>,
      <<"postgresql+psycopg://", "u@h/db">>,
      <<"postgresql+psycopg2://", "u@h/db">>,
      <<"POSTGRES://", "u@h/db">>,
      <<"mysql://", "u@h/db">>,
      <<"postgres://", "u@h/db", "?", "sslmode=", "disable">>,
      <<"postgres://", "u@h/db", "?", "SSLMODE=", "disable">>,
      <<"postgres://", "u@h/db", "?", "app=x">>,
      <<"postgresql://", "u@h/db", "?", "app=x", "&", "sslmode=", "require">>,
      <<"postgres://", "u:", "sslmode=", "x@h/db">>,
      <<Blank, "postgres://", "u@h/db", Blank>>,
      <<Blank>> }

EnvValues(k) ==
    IF k = "DATABASE_URL" THEN {None, Some(<< >>)} \cup {Some(u) : u \in UrlInputs}
    ELSE {None, Some(<< >>), Some(<<"postgres://", k>>)}

SecretsFiles ==
    { NoSecrets,
      Secrets("malformed", << >>),
      Secrets("parsed", << >>),
      Secrets("parsed", [k \in {"DATABASE_URL"} |-> <<"postgres://", "file">>]),
      Secrets("parsed", [k \in {"DATABASE_URL", "DB_URL"} |->
                            IF k = "DB_URL" THEN <<"postgres://", "file">> ELSE << >>]),
      Secrets("parsed", [k \in {"NEON_DATABASE_URL"} |->
                            <<Blank, "postgresql://", "file", "?", "sslmode=", "disable", Blank>>]) }

ConfigInit ==
    /\ tag_config = SeedTagConfig
    /\ client_tag = EmptyBag
    /\ id_seq = MaxId(SeedTagConfig)
    /\ now = 1
    /\ fk_enforced = TRUE
    /\ last = NoCall
    /\ InitImported
    /\ InitRace
    /\ InitBadge
    /\ InitConfig
    /\ InitDash

\* a database helper asks for the URL
GetDatabaseUrl ==
    LET r == Resolve(session_state, local_secrets, environ)
    IN  /\ db_url' = [called |-> TRUE, err |-> r.err, url |-> r.url, cached |-> session_state]
        /\ session_state' = r.cache
        /\ UNCHANGED <<local_secrets, environ, store_vars, race_vars, badge_vars, dash_vars>>

\* the environment of the process is changed
SetEnv(k, value) ==
    /\ environ' = [environ EXCEPT ![k] = value]
    /\ db_url' = NotResolved
    /\ UNCHANGED <<session_state, local_secrets, store_vars, race_vars, badge_vars, dash_vars>>

\* local_secrets.toml is written or deleted
WriteSecrets(secrets) ==
    /\ local_secrets' = secrets
    /\ db_url' = NotResolved
    /\ UNCHANGED <<session_state, environ, store_vars, race_vars, badge_vars, dash_vars>>

\* a browser session starts: its session state is empty
NewSession ==
    /\ session_state' = None
    /\ db_url' = NotResolved
    /\ UNCHANGED <<local_secrets, environ, store_vars, race_vars, badge_vars, dash_vars>>

ConfigNext ==
    \/ GetDatabaseUrl
    \/ \E k \in EnvKeys : \E value \in EnvValues(k) : SetEnv(k, value)
    \/ \E secrets \in SecretsFiles : WriteSecrets(secrets)
    \/ NewSession

ConfigSpec == ConfigInit /\ [][ConfigNext]_vars

(***************************************************************************)
(* The dashboard (specification DashSpec): the pages of the Client tab and *)
(* the handlers that navigate or write to the store.  A handler runs in    *)
(* one script run; a link (<a href=... target="_self">) loads the page     *)
(* anew and starts a new session, a button keeps the session.              *)
(***************************************************************************)
Params(client_id, client_subtab, client_tags_subtab) ==
    [tab |-> "Client", client_id |-> client_id, client_subtab |-> client_subtab,
     client_tags_subtab |-> client_tags_subtab]

\* the page the script renders: the client detail page when client_id is
\* set, else the sub-tab named by the parameters ("Clients" and "Dashboard"
\* are the defaults of active_client_page_subtab and active_client_tags_subtab)
Page(q) ==
    IF q.client_id # None THEN "Client"
    ELSE IF q.client_subtab # Some("Client Tags") THEN "Clients"
    ELSE IF q.client_tags_subtab = Some("Settings") THEN "Settings"
    ELSE "Dashboard"

\* the sub-tab links of the Client tab
Links ==
    { Params(None, Some("Clients"), None),
      Params(None, Some("Client Tags"), Some("Dashboard")),
      Params(None, Some("Client Tags"), Some("Settings")) }

\* no edit dialog is open (a dialog is modal)
NoDialog == edit_auto_tag = None /\ edit_manual_tag = None

Event(event) == [NoEvent EXCEPT !.event = event]

\* the connection outcomes of a dashboard handler's call: the store applies
\* the statement (what "lost_after" does to the store as well) or does not
DashConnOutcomes == {"ok", "lost_before"}

OpenLink(q) ==
    /\ query_params' = q
    /\ last_selected_client' = None
    /\ clients_grid' = None
    /\ edit_auto_tag' = None
    /\ edit_manual_tag' = None
    /\ handled' = NoEvent
    /\ UNCHANGED <<store_vars, race_vars, badge_vars, config_vars>>

\* "Only navigate if it's a different client"
Navigates(selected_id) == last_selected_client # Some(selected_id)

\* a click on the Name cell of a client selects the row; the run that
\* follows reads grid_response['selected_rows']
ClickName(selected_id) ==
    /\ Page(query_params) = "Clients"
    /\ selected_id \in {r.client_id : r \in DOMAIN client}
    /\ IF Navigates(selected_id)
       THEN /\ last_selected_client' = Some(selected_id)
            /\ query_params' = [query_params EXCEPT !.tab = "Client",
                                                    !.client_id = Some(selected_id)]
            /\ clients_grid' = None
       ELSE /\ clients_grid' = Some(selected_id)
            /\ UNCHANGED <<last_selected_client, query_params>>
    /\ handled' = [Event("click_name") EXCEPT !.clicked = Some(selected_id)]
    /\ UNCHANGED <<edit_auto_tag, edit_manual_tag>>
    /\ UNCHANGED <<store_vars, race_vars, badge_vars, config_vars>>

\* st.button("Back to Client List"): the grid is rendered under the key
\* clients_grid_<last_selected_client>, a new grid with nothing selected
BackToClientList ==
    /\ Page(query_params) = "Client"
    /\ query_params' = Params(None, None, None)
    /\ clients_grid' = None
    /\ handled' = NoEvent
    /\ UNCHANGED <<last_selected_client, edit_auto_tag, edit_manual_tag>>
    /\ UNCHANGED <<store_vars, race_vars, badge_vars, config_vars>>

\* the columns of a Settings grid row: auto_tags_df[['id', 'display_name',
\* 'color', 'is_active', 'description']]
GridRow(r) ==
    [id |-> r.id, display_name |-> r.display_name, color |-> r.color,
     is_active |-> r.is_active, description |-> r.description]

Rows(frame) == {frame[i] : i \in DOMAIN frame}

\* what staff leave or type in the Tag and Description inputs of an edit
\* dialog (the colour and the Active box are left as the dialog shows them)
TypedNames(value) == {value, "VIP"}
TypedDescriptions == {"edited", ""}

\* a click on the edit cell of the Automatic Tags grid
SelectAutoTag(r) ==
    /\ Page(query_params) = "Settings"
    /\ NoDialog
    /\ r \in Rows(fetch_tag_config(tag_config, Some("A"), "ok"))
    /\ edit_auto_tag' = Some(GridRow(r))
    /\ handled' = NoEvent
    /\ UNCHANGED <<query_params, last_selected_client, clients_grid, edit_manual_tag>>
    /\ UNCHANGED <<store_vars, race_vars, badge_vars, config_vars>>

\* a click on the edit cell of the Manual Tags grid
SelectManualTag(r) ==
    /\ Page(query_params) = "Settings"
    /\ NoDialog
    /\ r \in Rows(fetch_tag_config(tag_config, Some("M"), "ok"))
    /\ edit_manual_tag' = Some(GridRow(r))
    /\ handled' = NoEvent
    /\ UNCHANGED <<query_params, last_selected_client, clients_grid, edit_auto_tag>>
    /\ UNCHANGED <<store_vars, race_vars, badge_vars, config_vars>>

\* the keyword arguments the Save button of edit_auto_tag_modal passes
AutoTagKw_with_description(display_name, color, is_active) ==
    Kw(Some(display_name), Some(color), Some(is_active), Some(""))
AutoTagKw(display_name, color, is_active) ==
    Kw(Some(display_name), Some(color), Some(is_active), None)

\* the keyword arguments the Save button of edit_manual_tag_modal passes
ManualTagKw(display_name, color, is_active, description) ==
    Kw(Some(display_name), Some(color), Some(is_active), Some(description))

\* Save in edit_auto_tag_modal; the dialog closes whether or not the update
\* succeeded
SaveAutoTag(display_name, conn) ==
    /\ Page(query_params) = "Settings"
    /\ edit_auto_tag # None
    /\ update_tag_config(edit_auto_tag[1].id,
                         AutoTagKw(display_name, edit_auto_tag[1].color,
                                   edit_auto_tag[1].is_active), conn)
    /\ edit_auto_tag' = None
    /\ handled' = Event("save_auto_tag")
    /\ UNCHANGED <<query_params, last_selected_client, clients_grid, edit_manual_tag>>
    /\ UNCHANGED <<race_vars, badge_vars, config_vars>>

\* Save in edit_manual_tag_modal
SaveManualTag(display_name, description, conn) ==
    /\ Page(query_params) = "Settings"
    /\ edit_auto_tag = None
    /\ edit_manual_tag # None
    /\ update_tag_config(edit_manual_tag[1].id,
                         ManualTagKw(display_name, edit_manual_tag[1].color,
                                     edit_manual_tag[1].is_active, description), conn)
    /\ edit_manual_tag' = None
    /\ handled' = Event("save_manual_tag")
    /\ UNCHANGED <<query_params, last_selected_client, clients_grid, edit_auto_tag>>
    /\ UNCHANGED <<race_vars, badge_vars, config_vars>>

\* Cancel in either edit dialog
CancelEdit ==
    /\ Page(query_params) = "Settings"
    /\ ~NoDialog
    /\ IF edit_auto_tag # None
       THEN edit_auto_tag' = None /\ UNCHANGED edit_manual_tag
       ELSE edit_manual_tag' = None /\ UNCHANGED edit_auto_tag
    /\ handled' = NoEvent
    /\ UNCHANGED <<query_params, last_selected_client, clients_grid>>
    /\ UNCHANGED <<store_vars, race_vars, badge_vars, config_vars>>

\* new_tag_name.lower().replace(" ", "_") on the names staff enter
NewTagNames == {"Gold"}
ToSystemName(name) ==
    CASE name = "VIP" -> "vip"
      [] name = "Test Tag" -> "test_tag"
      [] name = "Gold" -> "gold"

\* Create in add_manual_tag_modal; without a name nothing is created
CreateNewTag(new_tag_name, new_tag_description, conn) ==
    /\ Page(query_params) = "Settings"
    /\ NoDialog
    /\ IF new_tag_name = ""
       THEN UNCHANGED store_vars
       ELSE create_manual_tag([system_name |-> ToSystemName(new_tag_name),
                               display_name |-> new_tag_name, color |-> "6b7280",
                               description |-> new_tag_description, is_active |-> TRUE],
                              conn)
    /\ handled' = Event("create_new_tag")
    /\ UNCHANGED <<query_params, last_selected_client, clients_grid, edit_auto_tag,
                   edit_manual_tag>>
    /\ UNCHANGED <<race_vars, badge_vars, config_vars>>

\* FROM client_tag ct LEFT JOIN tag_config tc ON ct.tag_id = tc.id: the
\* joined rows of all clients, copies numbered
AllJoin(tc, ct) ==
    UNION { UNION { { <<a, j, k>> : k \in 1..JoinCopies(tc, ct, a, j) }
                    : j \in LeftJoinTag(tc, a.tag_id) }
            : a \in DOMAIN ct }

\* the columns of fetch_client_tags_dataframe the dashboard uses, after
\* fillna(""): a text column of a missing tag is the empty string
DataframeColumns(a, j) ==
    [client_id |-> a.client_id, tag_id |-> a.tag_id,
     display_name |-> IF j = NullTag THEN "" ELSE j[1].display_name,
     tag_type |-> IF j = NullTag THEN "" ELSE j[1].tag_type]

\* ORDER BY ct.client_id: every arrangement of the joined rows with client_id
\* not decreasing (the rows of one client come in any order)
RECURSIVE OrderByClientId(_)
OrderByClientId(joined) ==
    IF joined = {} THEN {<< >>}
    ELSE UNION { { <<r>> \o rest : rest \in OrderByClientId(joined \ {r}) }
                 : r \in {x \in joined : \A y \in joined :
                                            x[1].client_id <= y[1].client_id} }

fetch_client_tags_dataframe(tc, ct, conn) ==
    IF conn # "ok" THEN {<< >>}
    ELSE { [i \in DOMAIN f |-> DataframeColumns(f[i][1], f[i][2])]
           : f \in OrderByClientId(AllJoin(tc, ct)) }

\* the rows ticked in a grid, by their positions in the frame, in the order
\* the grid returns them: one row, or two
Selections(df) ==
    {<<i>> : i \in DOMAIN df}
        \cup {<<p[1], p[2]>> : p \in {x \in (DOMAIN df) \X (DOMAIN df) : x[1] < x[2]}}

Pair(client_id, tag_id) == [client_id |-> client_id, tag_id |-> tag_id]

\* df[(df["client_id"] == client_id) & (df["display_name"] == display_name)]
MatchingRows(df, client_id, display_name) ==
    {i \in DOMAIN df : df[i].client_id = client_id /\ df[i].display_name = display_name}

\* matching_rows.iloc[0]
Iloc0(matching_rows) == CHOOSE i \in matching_rows : \A k \in matching_rows : i <= k

\* the remove_client_tag calls of the "Remove Selected" handler of the
\* dashboard grid, one selected row after the other
RECURSIVE RemoveCalls(_, _)
RemoveCalls(df, selected) ==
    IF selected = << >> THEN << >>
    ELSE LET selected_row == df[Head(selected)]
             matching_rows == MatchingRows(df, selected_row.client_id,
                                           selected_row.display_name)
         IN  (IF selected_row.display_name # "" /\ matching_rows # {}
              THEN <<Pair(selected_row.client_id, df[Iloc0(matching_rows)].tag_id)>>
              ELSE << >>)
             \o RemoveCalls(df, Tail(selected))

\* all_tags_df[all_tags_df['client_id'] == client_id]: the frame of the Tags
\* tab of the client detail page
ClientFrame(all_tags_df, client_id) ==
    LET OfClient(r) == r.client_id = client_id
    IN  SelectSeq(all_tags_df, OfClient)

\* client_tags_df[client_tags_df["display_name"] == display_name]
MatchingTags(client_tags_df, display_name) ==
    {i \in DOMAIN client_tags_df : client_tags_df[i].display_name = display_name}

\* the remove_client_tag calls of the "Remove Selected" handler of the Tags
\* grid of the client detail page
RECURSIVE RemoveCallsOfClient(_, _, _)
RemoveCallsOfClient(client_tags_df, client_id, selected) ==
    IF selected = << >> THEN << >>
    ELSE LET selected_row == client_tags_df[Head(selected)]
             matching_rows == MatchingTags(client_tags_df, selected_row.display_name)
         IN  (IF selected_row.display_name # "" /\ matching_rows # {}
              THEN <<Pair(client_id, client_tags_df[Iloc0(matching_rows)].tag_id)>>
              ELSE << >>)
             \o RemoveCallsOfClient(client_tags_df, client_id, Tail(selected))

\* client_tag after the calls, each with its own connection outcome
RECURSIVE RemoveEach(_, _, _)
RemoveEach(ct, calls, conns) ==
    IF calls = << >> THEN ct
    ELSE RemoveEach(IF Applied(Head(conns))
                    THEN DeleteClientTag(ct, Head(calls).client_id, Head(calls).tag_id).rows
                    ELSE ct,
                    Tail(calls), Tail(conns))

\* the handler made these remove_client_tag calls for these selected rows
RemoveHandler(selected, calls, conns) ==
    LET n == Len(calls)
    IN  /\ now + n <= MaxNow
        /\ client_tag' = RemoveEach(client_tag, calls, conns)
        /\ now' = now + n
        /\ last' = IF n = 0 THEN last
                   ELSE [op |-> "remove_client_tag", args |-> calls[n], conn |-> conns[n],
                         err |-> "none", result |-> TryExcept(conns[n], "none"),
                         at |-> now + n - 1, tag_config |-> tag_config,
                         client_tag |-> RemoveEach(client_tag, SubSeq(calls, 1, n - 1), conns),
                         id_seq |-> id_seq, auto_tag_statistic |-> auto_tag_statistic,
                         client |-> client]
        /\ handled' = [Event("remove_selected") EXCEPT !.selected = selected,
                                                       !.calls = calls]
        /\ UNCHANGED <<tag_config, id_seq, fk_enforced, import_vars>>
        /\ UNCHANGED <<query_params, last_selected_client, clients_grid, edit_auto_tag,
                       edit_manual_tag>>
        /\ UNCHANGED <<race_vars, badge_vars, config_vars>>

\* "Remove Selected" of the client-tags dashboard grid
RemoveSelectedTags(df, selected, conns) ==
    /\ Page(query_params) = "Dashboard"
    /\ RemoveHandler([i \in DOMAIN selected |->
                         Pair(df[selected[i]].client_id, df[selected[i]].tag_id)],
                     RemoveCalls(df, selected), conns)

\* "Remove Selected" of the Tags grid of the client detail page
RemoveSelectedClientTags(client_tags_df, selected, conns) ==
    /\ Page(query_params) = "Client"
    /\ RemoveHandler([i \in DOMAIN selected |->
                         Pair(query_params.client_id[1], client_tags_df[selected[i]].tag_id)],
                     RemoveCallsOfClient(client_tags_df, query_params.client_id[1], selected),
                     conns)

Elements(list) == {list[i] : i \in DOMAIN list}

\* manual_tags_df[~manual_tags_df['id'].isin(assigned_tag_ids)]
AvailableTags_unfiltered(manual_tags_df, assigned_tag_ids) == manual_tags_df
AvailableTags(manual_tags_df, assigned_tag_ids) ==
    LET NotAssigned(r) == r.id \notin Elements(assigned_tag_ids)
    IN  SelectSeq(manual_tags_df, NotAssigned)

\* available_tags[available_tags['display_name'] == selected_tag]['id'].values[0]
SelectedTagId(available_tags, selected_tag) ==
    LET matching == {i \in DOMAIN available_tags :
                        available_tags[i].display_name = selected_tag}
    IN  available_tags[Iloc0(matching)].id

\* Add in add_tag_dialog, on the page rendered with client_tags_df
AddTag(client_tags_df, selected_tag, reason_input, conn) ==
    LET client_id == query_params.client_id[1]
        manual_tags_df == fetch_tag_config(tag_config, Some("M"), "ok")
        assigned_tag_ids == [i \in DOMAIN client_tags_df |-> client_tags_df[i].tag_id]
        available_tags == AvailableTags(manual_tags_df, assigned_tag_ids)
        tag_id == SelectedTagId(available_tags, selected_tag)
    IN  /\ Page(query_params) = "Client"
        /\ selected_tag \in {r.display_name : r \in Rows(available_tags)}
        /\ add_client_tag(client_id, tag_id,
                          [ont_id |-> Some("7701234567"), assigned_by |-> "Dahi Nemutlu",
                           reason |-> reason_input], conn)
        /\ handled' = [Event("add_tag") EXCEPT !.rendered = assigned_tag_ids,
                                               !.offered = [i \in DOMAIN available_tags |->
                                                               available_tags[i].id],
                                               !.calls = <<Pair(client_id, tag_id)>>]
        /\ UNCHANGED <<query_params, last_selected_client, clients_grid, edit_auto_tag,
                       edit_manual_tag>>
        /\ UNCHANGED <<race_vars, badge_vars, config_vars>>

\* the store the dashboard starts on: what the bootstrap imported, and, where
\* no foreign key guards client_tag.tag_id, an assignment whose tag is missing
DashSeedClientTags ==
    SeedClientTags \cup
      { SetToBag({ ClientTagRow(1, None, 2, 0, "System", "import"),
                   ClientTagRow(2, None, 9, 0, "System", "import") }) }

Orphans(tc, ct) == {a \in DOMAIN ct : ~\E t \in DOMAIN tc : t.id = a.tag_id}

DashInit ==
    /\ tag_config = SeedTagConfig
    /\ client_tag \in DashSeedClientTags
    /\ id_seq = MaxId(SeedTagConfig)
    /\ now = 1
    /\ fk_enforced = (Orphans(tag_config, client_tag) = {})
    /\ last = NoCall
    /\ InitImported
    /\ InitRace
    /\ InitSide

DashNext ==
    \/ \E q \in Links : OpenLink(q)
    \/ \E selected_id \in Clients : ClickName(selected_id)
    \/ BackToClientList
    \/ \E r \in DOMAIN tag_config : SelectAutoTag(r)
    \/ \E r \in DOMAIN tag_config : SelectManualTag(r)
    \/ \E display_name \in TypedNames(IF edit_auto_tag = None THEN ""
                                      ELSE edit_auto_tag[1].display_name),
          conn \in DashConnOutcomes :
           SaveAutoTag(display_name, conn)
    \/ \E display_name \in TypedNames(IF edit_manual_tag = None THEN ""
                                      ELSE edit_manual_tag[1].display_name),
          description \in TypedDescriptions, conn \in DashConnOutcomes :
           SaveManualTag(display_name, description, conn)
    \/ CancelEdit
    \/ \E new_tag_name \in NewTagNames \cup {""}, conn \in DashConnOutcomes :
           CreateNewTag(new_tag_name, "new", conn)
    \/ \E df \in fetch_client_tags_dataframe(tag_config, client_tag, "ok") :
       \E selected \in Selections(df) : \E c1, c2 \in DashConnOutcomes :
           RemoveSelectedTags(df, selected, <<c1, c2>>)
    \/ \E c \in Clients :
       \E all_tags_df \in fetch_client_tags_dataframe(tag_config, client_tag, "ok") :
       \E selected \in Selections(ClientFrame(all_tags_df, c)) :
       \E c1, c2 \in DashConnOutcomes :
           /\ query_params.client_id = Some(c)
           /\ RemoveSelectedClientTags(ClientFrame(all_tags_df, c), selected, <<c1, c2>>)
    \/ \E c \in Clients, read \in DashConnOutcomes :
       \E all_tags_df \in fetch_client_tags_dataframe(tag_config, client_tag, read) :
       \E selected_tag \in {r.display_name : r \in DOMAIN tag_config},
          reason_input \in {"asked"}, conn \in DashConnOutcomes :
           /\ query_params.client_id = Some(c)
           /\ AddTag(ClientFrame(all_tags_df, c), selected_tag, reason_input, conn)

DashSpec == DashInit /\ [][DashNext]_vars

(***************************************************************************)
(* Concurrent users (specification RaceSpec).  Each user's session runs    *)
(* add_client_tag and remove_client_tag calls; a call is in progress from  *)
(* RaceCall until RaceExec, where its one statement is applied by the      *)
(* store (each statement is its own transaction) and the call returns.     *)
(* Calls of different users overlap in every order.                        *)
(***************************************************************************)
\* the pairs the users race on: tag 2 exists and client 1 holds it after the
\* import, tag 3 does not exist
RacePairs == { <<1, 2>>, <<1, 3>> }

RaceSeed ==
    SetToBag({ ClientTagRow(1, None, 2, 0, "System", "import"),
               ClientTagRow(1, None, 1, 0, "System", "import"),
               ClientTagRow(2, Some("o2"), 2, 0, "System", "import") })

RaceInit ==
    /\ tag_config = SeedTagConfig
    /\ client_tag = RaceSeed
    /\ id_seq = MaxId(SeedTagConfig)
    /\ now = 1
    /\ fk_enforced \in BOOLEAN
    /\ last = NoCall
    /\ InitImported
    /\ InitRace
    /\ InitSide

InProgress == {u \in Users : pc[u] = "called"}

\* the users whose call in progress is for the same pair as u's
RacingWith(u) ==
    {v \in InProgress \ {u} :
        req[v].client_id = req[u].client_id /\ req[v].tag_id = req[u].tag_id}

\* user u enters add_client_tag or remove_client_tag
RaceCall(u, op, p, m) ==
    /\ pc[u] = "idle"
    /\ now + Cardinality(InProgress) < MaxNow
    /\ pc' = [pc EXCEPT ![u] = "called"]
    /\ req' = [req EXCEPT ![u] =
                 [op |-> op, client_id |-> p[1], tag_id |-> p[2],
                  ont_id |-> m.ont_id, assigned_by |-> m.assigned_by, reason |-> m.reason]]
    /\ UNCHANGED <<ret, stmt_log, store_vars, side_vars>>

\* the statement of u's call is applied (or the connection fails) and the call returns
RaceExec(u, conn) ==
    LET r == req[u]
        row == ClientTagRow(r.client_id, r.ont_id, r.tag_id, now, r.assigned_by, r.reason)
        st == IF r.op = "add_client_tag"
              THEN InsertClientTag(client_tag, tag_config, fk_enforced, row)
              ELSE DeleteClientTag(client_tag, r.client_id, r.tag_id)
        err == IF Applied(conn) THEN st.err ELSE "none"
    IN  /\ pc[u] = "called"
        /\ client_tag' = IF Applied(conn) THEN st.rows ELSE client_tag
        /\ stmt_log' = IF Applied(conn)
                       THEN Append(stmt_log, [user |-> u, op |-> r.op, row |-> row, err |-> err,
                                              racing |-> RacingWith(u)])
                       ELSE stmt_log
        /\ ret' = [ret EXCEPT ![u] = [result |-> TryExcept(conn, err), conn |-> conn, err |-> err]]
        /\ pc' = [pc EXCEPT ![u] = "idle"]
        /\ now' = now + 1
        /\ UNCHANGED <<req, tag_config, id_seq, fk_enforced, last, import_vars, side_vars>>

RaceNext ==
    \/ \E u \in Users, p \in RacePairs, m \in AddMeta : RaceCall(u, "add_client_tag", p, m)
    \/ \E u \in Users, p \in RacePairs :
           RaceCall(u, "remove_client_tag", p, CHOOSE m \in AddMeta : m.ont_id = None)
    \/ \E u \in Users, conn \in ConnOutcomes : RaceExec(u, conn)

RaceSpec == RaceInit /\ [][RaceNext]_vars

(***************************************************************************)
(* Properties of the store mutations (specification Spec).                 *)
(***************************************************************************)
\* the client_tag rows of one (client_id, tag_id) pair
PairRows(ct, client_id, tag_id) ==
    [r \in {x \in DOMAIN ct : x.client_id = client_id /\ x.tag_id = tag_id} |-> ct[r]]

\* the tag_config rows with one id
IdRows(tc, id) == [r \in {x \in DOMAIN tc : x.id = id} |-> tc[r]]

\* the tag_config rows with one system_name
NameRows(tc, system_name) == [r \in {x \in DOMAIN tc : x.system_name = system_name} |-> tc[r]]

LastIsAdd == last.op = "add_client_tag"
LastIsRemove == last.op = "remove_client_tag"
LastIsUpdate == last.op = "update_tag_config"
LastIsCreate == last.op = "create_manual_tag"

\* the pair of the last add or remove had a row before the call
PairExisted == PairRows(last.client_tag, last.args.client_id, last.args.tag_id) # EmptyBag

\* C1: add_client_tag for a pair that already has a row leaves exactly one row
\* for the pair, that row being the previous one with its assigned_at,
\* assigned_by and reason, and returns True when the statement ran without a
\* connection failure; a row that is inserted carries assigned_at = now.
C1_AddIdempotent ==
    LastIsAdd =>
        LET before == PairRows(last.client_tag, last.args.client_id, last.args.tag_id)
            after == PairRows(client_tag, last.args.client_id, last.args.tag_id)
        IN  /\ PairExisted =>
                /\ CountRows(after) = 1
                /\ after = before
                /\ \A r \in DOMAIN after : r.assigned_at < last.at
                /\ last.conn = "ok" => last.result = "True"
            /\ (~PairExisted /\ after # EmptyBag) =>
                \A r \in DOMAIN after : r.assigned_at = last.at

\* an add with other arguments than the existing row's returned True
C1_Witness ==
    /\ LastIsAdd /\ PairExisted /\ last.conn = "ok" /\ last.result = "True"
    /\ \E r \in DOMAIN PairRows(client_tag, last.args.client_id, last.args.tag_id) :
           /\ r.assigned_by # last.args.assigned_by
           /\ r.reason # last.args.reason
           /\ r.ont_id # last.args.ont_id

\* C2: no (client_id, tag_id) pair has more than one client_tag row.
C2_NoDuplicateAssignment ==
    \A r \in DOMAIN client_tag : CountRows(PairRows(client_tag, r.client_id, r.tag_id)) = 1

\* a second add_client_tag reached the store for a pair an earlier
\* add_client_tag had inserted
C2_Witness ==
    /\ LastIsAdd /\ Applied(last.conn)
    /\ \E r \in DOMAIN PairRows(last.client_tag, last.args.client_id, last.args.tag_id) :
           r.assigned_at > 0
    /\ client_tag # EmptyBag

\* C4: remove_client_tag for a pair without a row returns True and leaves
\* client_tag as it was; for a pair with a row it removes that row and no other.
C4_RemoveFrame ==
    LastIsRemove =>
        /\ ~PairExisted =>
              /\ client_tag = last.client_tag
              /\ last.conn = "ok" => last.result = "True"
        /\ (PairExisted /\ Applied(last.conn)) =>
              /\ PairRows(client_tag, last.args.client_id, last.args.tag_id) = EmptyBag
              /\ \A r \in DOMAIN last.client_tag :
                    (r.client_id # last.args.client_id \/ r.tag_id # last.args.tag_id)
                        => CopiesIn(r, client_tag) = CopiesIn(r, last.client_tag)
              /\ \A r \in DOMAIN client_tag : CopiesIn(r, last.client_tag) > 0
              /\ last.conn = "ok" => last.result = "True"

\* a row was removed while the same client and the same tag keep other rows
C4_Witness ==
    /\ LastIsRemove /\ PairExisted /\ last.result = "True"
    /\ \E r \in DOMAIN client_tag : r.client_id = last.args.client_id
    /\ \E r \in DOMAIN client_tag : r.tag_id = last.args.tag_id

\* the value a column must have after an update: the supplied one, else the old one
Expected(arg, old) == IF arg # None THEN arg[1] ELSE old

\* C5: an update_tag_config that reached the store with at least one field
\* supplied sets exactly the supplied fields of the row with the given id
\* (empty string and False included), sets its updated_at to now, and leaves
\* its id, system_name, tag_type, created_at and every other row unchanged.
C5_PartialUpdate ==
    (LastIsUpdate /\ last.args.kw # Kw(None, None, None, None) /\ last.conn # "lost_before") =>
        /\ CountRows(tag_config) = CountRows(last.tag_config)
        /\ \A old \in DOMAIN last.tag_config :
              IF old.id # last.args.tag_id
              THEN CopiesIn(old, tag_config) = CopiesIn(old, last.tag_config)
              ELSE \E new \in DOMAIN tag_config :
                      /\ new.id = old.id
                      /\ new.system_name = old.system_name
                      /\ new.tag_type = old.tag_type
                      /\ new.created_at = old.created_at
                      /\ new.display_name = Expected(last.args.kw.display_name, old.display_name)
                      /\ new.color = Expected(last.args.kw.color, old.color)
                      /\ new.is_active = Expected(last.args.kw.is_active, old.is_active)
                      /\ new.description = Expected(last.args.kw.description, old.description)
                      /\ new.updated_at = last.at

\* an update supplied display_name = "" and description = "" for an existing
\* row that had other values, and nothing else
C5_Witness ==
    /\ LastIsUpdate /\ last.conn = "ok"
    /\ last.args.kw = Kw(Some(""), None, None, Some(""))
    /\ \E old \in DOMAIN last.tag_config, new \in DOMAIN tag_config :
          /\ old.id = last.args.tag_id /\ new.id = old.id
          /\ old.display_name # "" /\ new.display_name = ""
          /\ old.description # "" /\ new.description = ""
          /\ new.updated_at > old.updated_at

\* C6: update_tag_config for an id that matches no tag_config row returns False.
C6_UpdateMissingIdFails ==
    (LastIsUpdate /\ ~IdTaken(last.tag_config, last.args.tag_id)) => last.result = "False"

\* C7: update_tag_config with no field supplied returns False and leaves
\* tag_config, updated_at included, as it was.
C7_NoFieldsFails ==
    (LastIsUpdate /\ last.args.kw = Kw(None, None, None, None)) =>
        /\ last.result = "False"
        /\ tag_config = last.tag_config

\* update_tag_config was called with no field for a row that exists
C7_Witness ==
    /\ LastIsUpdate /\ last.args.kw = Kw(None, None, None, None)
    /\ IdTaken(tag_config, last.args.tag_id)
    /\ last.result = "False"

\* C8: a call that fails returns False (it does not raise) and leaves
\* tag_config and client_tag exactly as they were before the call.
C8_FailureLeavesStateUnchanged ==
    (last.op # "none" /\ last.result # "True") =>
        /\ last.result = "False"
        /\ tag_config = last.tag_config
        /\ client_tag = last.client_tag

\* C9: a create_manual_tag that returns True has added exactly one tag_config
\* row: tag_type 'M', the id the sequence handed out, which no row had before,
\* created_at = updated_at, the columns as given; no other row changed.
C9_CreateAddsOneManualRow ==
    (LastIsCreate /\ last.result = "True") =>
        \E new \in DOMAIN tag_config :
            /\ tag_config = last.tag_config (+) SetToBag({new})
            /\ new.tag_type = "M"
            /\ new.id = last.id_seq + 1
            /\ ~IdTaken(last.tag_config, new.id)
            /\ new.created_at = new.updated_at
            /\ new.created_at = last.at
            /\ new.system_name = last.args.system_name
            /\ new.display_name = last.args.display_name
            /\ new.color = last.args.color
            /\ new.description = last.args.description
            /\ new.is_active = last.args.is_active

\* a tag was created inactive, with a display name another tag carries
C9_Witness ==
    /\ LastIsCreate /\ last.result = "True" /\ last.args.is_active = FALSE
    /\ \E r \in DOMAIN last.tag_config : r.display_name = last.args.display_name
    /\ CountRows(tag_config) = CountRows(last.tag_config) + 1

\* C10: no two tag_config rows share an id or a system_name, and a
\* create_manual_tag whose system_name a row already has returns False and
\* adds no row.
C10_UniqueNames ==
    /\ \A r \in DOMAIN tag_config :
          /\ CountRows(IdRows(tag_config, r.id)) = 1
          /\ CountRows(NameRows(tag_config, r.system_name)) = 1
    /\ (LastIsCreate /\ SystemNameTaken(last.tag_config, last.args.system_name)) =>
          /\ last.result = "False"
          /\ tag_config = last.tag_config

\* create_manual_tag reached the store with the system_name of an existing tag
C10_Witness ==
    /\ LastIsCreate /\ last.conn = "ok" /\ last.err = "unique_violation"
    /\ SystemNameTaken(last.tag_config, last.args.system_name)
    /\ last.result = "False"

(***************************************************************************)
(* Properties of racing calls (specification RaceSpec).                    *)
(***************************************************************************)
\* the statements the store applied for pair p, in order, leaving out the
\* inserts it refused
PairLog(p) ==
    SelectSeq(stmt_log, LAMBDA e : e.row.client_id = p[1] /\ e.row.tag_id = p[2]
                                   /\ e.err = "none")

\* what first-insert-wins and last-delete-wins leave for pair p: the imported
\* row while no delete was applied, else the row of the first insert applied
\* after the last delete, else nothing
RaceOutcome(p) ==
    LET L == PairLog(p)
        dels == {i \in DOMAIN L : L[i].op = "remove_client_tag"}
        lastDel == IF dels = {} THEN 0 ELSE CHOOSE i \in dels : \A j \in dels : j <= i
        ins == {i \in DOMAIN L : i > lastDel /\ L[i].op = "add_client_tag"}
    IN  IF lastDel = 0 /\ PairRows(RaceSeed, p[1], p[2]) # EmptyBag
        THEN PairRows(RaceSeed, p[1], p[2])
        ELSE IF ins = {} THEN EmptyBag
             ELSE SetToBag({ L[CHOOSE i \in ins : \A j \in ins : i <= j].row })

\* C3: under every interleaving of concurrent add_client_tag and
\* remove_client_tag calls for the same pair, the pair has at most one row,
\* that row is the first one inserted since the last delete and there is none
\* when a delete was applied last, and no call returns False because of the
\* race (only a connection failure or a missing tag makes a call fail).
C3_RaceSafe ==
    /\ \A p \in RacePairs :
          /\ CountRows(PairRows(client_tag, p[1], p[2])) <= 1
          /\ PairRows(client_tag, p[1], p[2]) = RaceOutcome(p)
    /\ \A u \in Users :
          ret[u].result = "False" =>
              \/ ret[u].conn # "ok"
              \/ ret[u].err = "foreign_key_violation" /\ fk_enforced

\* two users' add_client_tag calls for the same pair overlapped, the store
\* applied both after a delete, both returned True and the row is the first one
C3_Witness ==
    \E i, j, k \in DOMAIN stmt_log :
        /\ k < i /\ i < j
        /\ stmt_log[k].op = "remove_client_tag"
        /\ stmt_log[i].op = "add_client_tag" /\ stmt_log[j].op = "add_client_tag"
        /\ stmt_log[i].user # stmt_log[j].user
        /\ stmt_log[j].user \in stmt_log[i].racing
        /\ stmt_log[k].row.client_id = stmt_log[i].row.client_id
        /\ stmt_log[k].row.tag_id = stmt_log[i].row.tag_id
        /\ \A u \in Users : ret[u].result = "True"
        /\ CopiesIn(stmt_log[i].row, client_tag) = 1
        /\ CopiesIn(stmt_log[j].row, client_tag) = 0
        /\ stmt_log[j].row.assigned_by # stmt_log[i].row.assigned_by

(***************************************************************************)
(* Properties of tag definitions over time (specification Spec).           *)
(***************************************************************************)
IdsOf(tc) == {r.id : r \in DOMAIN tc}

\* C11: no call changes the tag_type of an existing tag_config row, and
\* update_tag_config treats an Automatic row as it treats a Manual one: with a
\* field supplied and the connection up it returns True, and once the store
\* applied it every supplied field (description included) is written.
C11_TagTypeImmutable ==
    /\ last.op # "none" =>
          \A old \in DOMAIN last.tag_config, new \in DOMAIN tag_config :
              new.id = old.id => new.tag_type = old.tag_type
    /\ (LastIsUpdate /\ last.args.kw # Kw(None, None, None, None)) =>
          \A old \in DOMAIN last.tag_config :
              old.id = last.args.tag_id =>
                  /\ last.result = (IF last.conn = "ok" THEN "True" ELSE "False")
                  /\ last.conn # "lost_before" =>
                        \E new \in DOMAIN tag_config :
                            /\ new.id = old.id
                            /\ new.tag_type = old.tag_type
                            /\ new.display_name = Expected(last.args.kw.display_name, old.display_name)
                            /\ new.color = Expected(last.args.kw.color, old.color)
                            /\ new.is_active = Expected(last.args.kw.is_active, old.is_active)
                            /\ new.description = Expected(last.args.kw.description, old.description)

\* update_tag_config wrote a description to an Automatic tag and returned True
C11_Witness ==
    /\ LastIsUpdate /\ last.result = "True"
    /\ last.args.kw.description = Some("edited")
    /\ \E old \in DOMAIN last.tag_config, new \in DOMAIN tag_config :
          /\ old.id = last.args.tag_id /\ new.id = old.id
          /\ old.tag_type = "A" /\ new.tag_type = "A"
          /\ old.description # "edited" /\ new.description = "edited"

\* C12: no step removes a tag_config row or changes an id: the ids present
\* before a step are present after it.
C12_IdsOnlyGrow == [][IdsOf(tag_config) \subseteq IdsOf(tag_config')]_vars

\* a tag was created (the ids grew) after an update had gone through
C12_Witness ==
    /\ LastIsCreate /\ last.result = "True"
    /\ IdsOf(last.tag_config) \subseteq IdsOf(tag_config)
    /\ IdsOf(tag_config) # IdsOf(last.tag_config)
    /\ \E r \in DOMAIN last.tag_config : r.updated_at > r.created_at


LastIsBootstrap == last.op = "init_db"

\* C13: a bootstrap run that exits with 0 leaves the id sequence at the
\* greatest imported id, and every create_manual_tag that adds a row (the
\* first one after the import included) gives it an id strictly greater than
\* every id the table held, so it never collides with an imported id.
C13_CreatePastImportedIds ==
    /\ (LastIsBootstrap /\ last.result = "0") =>
          /\ tag_config = last.args.tag_config_csv
          /\ id_seq = MaxId(tag_config)
    /\ id_seq >= MaxId(tag_config)
    /\ (LastIsCreate /\ last.result = "True") =>
          \E new \in DOMAIN tag_config :
              /\ tag_config = last.tag_config (+) SetToBag({new})
              /\ \A old \in DOMAIN last.tag_config : new.id > old.id

\* the import loaded one tag with id 5 and the create right after it got id 6
C13_Witness ==
    /\ LastIsCreate /\ last.result = "True"
    /\ IdsOf(last.tag_config) = {5}
    /\ \A old \in DOMAIN last.tag_config : old.created_at = 0
    /\ IdsOf(tag_config) = {5, 6}


\* the rows of a listing that are equal to r
Listed(listing, r) == {i \in DOMAIN listing : listing[i] = r}

\* the listing holds exactly the rows of the bag, each as often as the bag
ListsExactly(listing, rows) ==
    /\ Len(listing) = CountRows(rows)
    /\ \A r \in DOMAIN rows : Cardinality(Listed(listing, r)) = rows[r]

AscendingId(listing) ==
    \A i, j \in DOMAIN listing : i < j => listing[i].id < listing[j].id

TagTypes == {"A", "M"}

\* C14 as stated: after a create_manual_tag that returned True, the listing
\* of the Manual tags has exactly one entry with the display name given, and
\* that entry has the color given and tag_type 'M'.
C14_RoundTripByDisplayName ==
    (LastIsCreate /\ last.result = "True") =>
        LET listing == fetch_tag_config(tag_config, Some("M"), "ok")
            hits == {i \in DOMAIN listing : listing[i].display_name = last.args.display_name}
        IN  /\ Cardinality(hits) = 1
            /\ \A i \in hits : /\ listing[i].color = last.args.color
                               /\ listing[i].tag_type = "M"

\* C14 (amended): after a create_manual_tag that returned True, the listing
\* of the Manual tags has exactly one entry with the system name given; that
\* entry has the display name and the color given and tag_type 'M'.  It is
\* the only entry with that display name when no Manual tag carried the
\* display name before the call.
C14_RoundTripBySystemName ==
    (LastIsCreate /\ last.result = "True") =>
        LET listing == fetch_tag_config(tag_config, Some("M"), "ok")
            hits == {i \in DOMAIN listing : listing[i].system_name = last.args.system_name}
            same == {i \in DOMAIN listing : listing[i].display_name = last.args.display_name}
        IN  /\ Cardinality(hits) = 1
            /\ \A i \in hits : /\ listing[i].display_name = last.args.display_name
                               /\ listing[i].color = last.args.color
                               /\ listing[i].tag_type = "M"
            /\ (\A old \in DOMAIN last.tag_config :
                    old.tag_type = "M" => old.display_name # last.args.display_name)
                  => same = hits

\* "Test Tag" was created and the Manual listing shows it after the seeded tag
C14_Witness ==
    /\ LastIsCreate /\ last.result = "True" /\ last.args.display_name = "Test Tag"
    /\ LET listing == fetch_tag_config(tag_config, Some("M"), "ok")
       IN  /\ Len(listing) = 2
           /\ listing[2].display_name = "Test Tag" /\ listing[2].color = "123456"

\* C15: fetch_tag_config without a filter lists every tag_config row exactly
\* once, the rows of one tag_type together ('A' before 'M') and by ascending
\* id inside a type; with a filter it lists exactly the rows of that type by
\* ascending id; where no row qualifies the listing is the empty sequence.
C15_ListingOrder ==
    /\ \A f \in {None, Some("")} :
          LET listing == fetch_tag_config(tag_config, f, "ok")
          IN  /\ ListsExactly(listing, tag_config)
              /\ \A i, j \in DOMAIN listing :
                    i < j =>
                       /\ ~(listing[i].tag_type = "M" /\ listing[j].tag_type = "A")
                       /\ listing[i].tag_type = listing[j].tag_type
                             => listing[i].id < listing[j].id
              /\ tag_config = EmptyBag => listing = << >>
    /\ \A t \in TagTypes :
          LET listing == fetch_tag_config(tag_config, Some(t), "ok")
          IN  /\ ListsExactly(listing, TagsOfType(tag_config, t))
              /\ \A i \in DOMAIN listing : listing[i].tag_type = t
              /\ AscendingId(listing)
              /\ (\A r \in DOMAIN tag_config : r.tag_type # t) => listing = << >>

\* three tags, the Automatic one with an id between those of the Manual
\* ones: the listing without a filter is not in id order
C15_Witness ==
    /\ CountRows(tag_config) = 3
    /\ \E a, m1, m2 \in DOMAIN tag_config :
          /\ a.tag_type = "A" /\ m1.tag_type = "M" /\ m2.tag_type = "M"
          /\ m1.id < a.id /\ a.id < m2.id
          /\ fetch_tag_config(tag_config, None, "ok") = <<a, m1, m2>>


\* the Manual tags with at least one assignment
AssignedManualTags ==
    {r \in DOMAIN tag_config :
        r.tag_type = "M" /\ \E a \in DOMAIN client_tag : a.tag_id = r.id}

\* the number of client_tag rows of a tag
Assignments(tag_id) ==
    CountRows([a \in {x \in DOMAIN client_tag : x.tag_id = tag_id} |-> client_tag[a]])

\* C20: fetch_manual_tag_counts returns one row for every Manual tag that has
\* an assignment, with the number of client_tag rows of that tag as its
\* count, in the order of the counts, and no row for anything else.
C20_OneCountPerManualTag ==
    \A listing \in fetch_manual_tag_counts(tag_config, client_tag, "ok") :
        /\ Len(listing) = Cardinality(AssignedManualTags)
        /\ \A r \in AssignedManualTags :
              \E i \in DOMAIN listing :
                  /\ listing[i].display_name = r.display_name
                  /\ listing[i].color = r.color
                  /\ listing[i].tag_count = Assignments(r.id)
        /\ \A i, j \in DOMAIN listing : i < j => listing[i].tag_count <= listing[j].tag_count


TextColors == {"#000000", "#ffffff"}

\* the colour string without one leading '#', if it has one
StripOne(s) == IF s # << >> /\ Head(s) = "#" THEN Tail(s) ELSE s

SixHexDigits(s) == Len(s) = 6 /\ \A i \in DOMAIN s : IsHexDigit(s[i])

\* C16: whatever the colour string, get_contrast_color returns "#000000" or
\* "#ffffff"; no exception leaves it.
C16_ContrastTotal ==
    text_color.python # "none" => text_color.python \in TextColors

\* a string that is no colour was rendered, with white text
C16_Witness ==
    /\ hex_color = <<"n", "o", "t", "-", "a", "-", "c", "o", "l", "o", "r">>
    /\ text_color.python = "#ffffff"

\* C17: for a colour string of exactly six hex digits, with or without one
\* leading '#', get_contrast_color returns "#000000" exactly when
\* 299 R + 587 G + 114 B > 127500, and "#ffffff" otherwise.
C17_LuminanceThreshold ==
    (text_color.python # "none" /\ SixHexDigits(StripOne(hex_color))) =>
        LET hex == StripOne(hex_color)
            R == HexValue(SubSeq(hex, 1, 2))
            G == HexValue(SubSeq(hex, 3, 4))
            B == HexValue(SubSeq(hex, 5, 6))
        IN  /\ text_color.python \in TextColors
            /\ text_color.python = "#000000" <=> 299 * R + 587 * G + 114 * B > 127500

\* C18: for a colour string that, without one leading '#', is not exactly
\* six hex digits, get_contrast_color returns "#ffffff".
C18_InvalidGivesWhite ==
    (text_color.python # "none" /\ ~SixHexDigits(StripOne(hex_color))) =>
        text_color.python = "#ffffff"

\* C19: the Python rule and the JavaScript rule choose the same text colour
\* for the same colour string.
C19_SameRuleEverywhere ==
    (text_color.python # "none" /\ text_color.js # "none") =>
        text_color.python = text_color.js


\* the client_tag rows of a client
RowsOfClient(client_id) ==
    [a \in {x \in DOMAIN client_tag : x.client_id = client_id} |-> client_tag[a]]

\* C21: fetch_client_tags(c) answers without an error, with exactly the
\* client_tag rows of client c, the most recently assigned first; each entry
\* carries the columns of its tag, and an entry whose tag_id has no
\* tag_config row is listed all the same, its tag columns NULL.
C21_ClientListing ==
    \A c \in Clients :
        LET listings == fetch_client_tags(tag_config, client_tag, c, "ok")
        IN  /\ listings # {}
            /\ \A listing \in listings :
                  /\ Len(listing) = CountRows(RowsOfClient(c))
                  /\ \A a \in DOMAIN RowsOfClient(c) :
                        \E i \in DOMAIN listing :
                            /\ listing[i].tag_id = a.tag_id
                            /\ listing[i].assigned_at = a.assigned_at
                            /\ listing[i].assigned_by = a.assigned_by
                            /\ listing[i].reason = a.reason
                  /\ \A i \in DOMAIN listing :
                        \E a \in DOMAIN RowsOfClient(c) : listing[i].tag_id = a.tag_id
                  /\ \A i, j \in DOMAIN listing :
                        i < j => listing[i].assigned_at >= listing[j].assigned_at
                  /\ \A i \in DOMAIN listing :
                        IF \E t \in DOMAIN tag_config : t.id = listing[i].tag_id
                        THEN \E t \in DOMAIN tag_config :
                                /\ t.id = listing[i].tag_id
                                /\ listing[i].system_name = Some(t.system_name)
                                /\ listing[i].display_name = Some(t.display_name)
                                /\ listing[i].tag_type = Some(t.tag_type)
                                /\ listing[i].color = Some(t.color)
                                /\ listing[i].description = Some(t.description)
                        ELSE /\ listing[i].system_name = None
                             /\ listing[i].display_name = None
                             /\ listing[i].tag_type = None
                             /\ listing[i].color = None
                             /\ listing[i].description = None

\* client 1 holds the two imported tags and, assigned later, tag 3, which has
\* no tag_config row: the listing starts with that entry, its tag columns NULL
C21_Witness ==
    /\ ~IdTaken(tag_config, 3)
    /\ \A listing \in fetch_client_tags(tag_config, client_tag, 1, "ok") :
          /\ Len(listing) = 3
          /\ listing[1].tag_id = 3 /\ listing[1].display_name = None
          /\ listing[1].assigned_at > listing[2].assigned_at
          /\ listing[2].display_name # None


\* the auto_tag_statistic rows whose tag is an Automatic tag_config row
AutomaticStatistics ==
    [a \in {x \in DOMAIN auto_tag_statistic :
               \E t \in DOMAIN tag_config : t.id = x.tag_id /\ t.tag_type = "A"}
        |-> auto_tag_statistic[a]]

\* what the listing shows of a statistics row: the day, the count, and the
\* tag's display name and color
Shown(a) ==
    LET t == CHOOSE x \in DOMAIN tag_config : x.id = a.tag_id
    IN  [date |-> a.run_finished_at[1], assigned_count |-> a.assigned_count,
         display_name |-> Some(t.display_name), color |-> Some(t.color)]

\* C22: fetch_auto_tag_statistics lists every auto_tag_statistic row of an
\* Automatic tag once per copy (rows of one tag and day side by side, nothing
\* for a day without a run) and no row of a Manual or a missing tag, in the
\* order of run_finished_at, so the days do not decrease along the listing.
C22_StatisticsListing ==
    LET listings == fetch_auto_tag_statistics(tag_config, auto_tag_statistic, "ok")
    IN  /\ listings # {}
        /\ \A listing \in listings :
              /\ Len(listing) = CountRows(AutomaticStatistics)
              /\ \A a \in DOMAIN AutomaticStatistics :
                    Cardinality({i \in DOMAIN listing : listing[i] = Shown(a)})
                       = CountRows([x \in {y \in DOMAIN AutomaticStatistics : Shown(y) = Shown(a)}
                                       |-> AutomaticStatistics[x]])
              /\ \A i \in DOMAIN listing :
                    \E a \in DOMAIN AutomaticStatistics : listing[i] = Shown(a)
              /\ \A i, j \in DOMAIN listing : i < j => listing[i].date <= listing[j].date
              /\ \E runs \in [DOMAIN listing -> DOMAIN AutomaticStatistics] :
                    /\ \A a \in DOMAIN AutomaticStatistics :
                          Cardinality({i \in DOMAIN listing : runs[i] = a})
                             = AutomaticStatistics[a]
                    /\ \A i \in DOMAIN listing : listing[i] = Shown(runs[i])
                    /\ \A i, j \in DOMAIN listing :
                          i < j =>
                             \/ runs[i].run_finished_at[1] < runs[j].run_finished_at[1]
                             \/ /\ runs[i].run_finished_at[1] = runs[j].run_finished_at[1]
                                /\ runs[i].run_finished_at[2] <= runs[j].run_finished_at[2]

\* an import left two identical runs of the Automatic tag 7 on day 1, a run
\* of the Manual tag 2 and a run of tag 9, which does not exist: the listing
\* is the two runs of tag 7
C22_Witness ==
    /\ LastIsBootstrap /\ last.result = "0"
    /\ \E a \in DOMAIN auto_tag_statistic : a.tag_id = 7 /\ auto_tag_statistic[a] = 2
    /\ \E a \in DOMAIN auto_tag_statistic : a.tag_id = 9
    /\ \E a \in DOMAIN auto_tag_statistic : a.tag_id = 2
    /\ \A listing \in fetch_auto_tag_statistics(tag_config, auto_tag_statistic, "ok") :
          /\ Len(listing) = 2
          /\ listing[1] = listing[2]
          /\ listing[1].display_name = Some("Churn Risk")


\* the files of a run are all there, client.csv aside, and db_url.toml
\* holds a URL
Prepared(run) ==
    /\ AllFiles \ {"client.csv"} \subseteq run.files
    /\ run.config = "url"

\* the database accepts every load of the run and the sequence reset
Importable(run) ==
    /\ run.tag_config_csv # EmptyBag
    /\ \A r \in DOMAIN run.tag_config_csv :
          /\ run.tag_config_csv[r] = 1
          /\ \A x \in DOMAIN run.tag_config_csv :
                x # r => (x.id # r.id /\ x.system_name # r.system_name)
    /\ \A r \in DOMAIN run.client_tag_csv :
          /\ run.client_tag_csv[r] = 1
          /\ \A x \in DOMAIN run.client_tag_csv :
                x # r => (x.client_id # r.client_id \/ x.tag_id # r.tag_id)
    /\ fk_enforced =>
          \A r \in (DOMAIN run.client_tag_csv) \cup (DOMAIN run.auto_tag_statistic_csv) :
              \E t \in DOMAIN run.tag_config_csv : t.id = r.tag_id

\* the tables hold what the files of the run hold
Loaded(run) ==
    /\ tag_config = run.tag_config_csv
    /\ client_tag = run.client_tag_csv
    /\ auto_tag_statistic = run.auto_tag_statistic_csv
    /\ client = (IF "client.csv" \in run.files THEN run.client_csv ELSE EmptyBag)
    /\ id_seq = MaxId(run.tag_config_csv)

\* the tables are what they were before the call
Untouched ==
    /\ tag_config = last.tag_config
    /\ client_tag = last.client_tag
    /\ auto_tag_statistic = last.auto_tag_statistic
    /\ client = last.client
    /\ id_seq = last.id_seq

\* C23: the bootstrap exits with 0 exactly when schema.sql, the three
\* required CSVs and the URL in db_url.toml are there, the connection holds
\* and the database accepts every step; otherwise it exits with 1 and a
\* reason.  Whether client.csv is there does not matter.
C23_ExitCode ==
    LastIsBootstrap =>
        /\ last.result \in {"0", "1"}
        /\ last.result = "0" <=>
              (Prepared(last.args) /\ last.args.conn = "ok" /\ Importable(last.args))
        /\ last.result = "1" <=> last.err # "none"
        /\ last.result = "0" => Loaded(last.args)

\* a run without client.csv ended with 0 and left the client table empty
C23_Witness ==
    /\ LastIsBootstrap /\ last.result = "0"
    /\ "client.csv" \notin last.args.files
    /\ client = EmptyBag /\ last.client # EmptyBag
    /\ tag_config = OtherTags

\* C27: a bootstrap run leaves the tables and the sequence either as they
\* were or as the files say, never in between; they are as they were when a
\* file or the URL is missing, when the connection cannot be made and when
\* the database rejects a step, and as the files say when it exits with 0.
C27_AllOrNothing ==
    LastIsBootstrap =>
        /\ Untouched \/ Loaded(last.args)
        /\ (~Prepared(last.args) \/ ~Importable(last.args) \/ last.args.conn = "lost_before")
              => Untouched
        /\ last.result = "0" => Loaded(last.args)

\* the tag_config load of a run went through and its client_tag load hit the
\* foreign key: the tables are what they were, not what the files say
C27_Witness ==
    /\ LastIsBootstrap /\ last.err = "foreign_key_violation"
    /\ last.args.tag_config_csv # last.tag_config
    /\ tag_config = last.tag_config
    /\ \E r \in DOMAIN last.args.client_tag_csv :
          ~IdTaken(last.args.tag_config_csv, r.tag_id)


\* the URL the secrets file provides, if any: the value, without surrounding
\* blanks, of the first key of the list that the file has
FileUrls ==
    IF local_secrets.state # "parsed" THEN {}
    ELSE { RTrim(LTrim(local_secrets.contents[DATABASE_URL_ENV_KEYS[i]])) :
             i \in { k \in DOMAIN DATABASE_URL_ENV_KEYS :
                       /\ DATABASE_URL_ENV_KEYS[k] \in DOMAIN local_secrets.contents
                       /\ \A j \in DOMAIN DATABASE_URL_ENV_KEYS :
                             j < k => DATABASE_URL_ENV_KEYS[j] \notin DOMAIN local_secrets.contents } }
          \ { << >> }

\* the value of the first variable of the list that is set and not empty
EnvUrls ==
    { environ[DATABASE_URL_ENV_KEYS[i]][1] :
         i \in { k \in DOMAIN DATABASE_URL_ENV_KEYS :
                   /\ NonEmpty(environ[DATABASE_URL_ENV_KEYS[k]])
                   /\ \A j \in DOMAIN DATABASE_URL_ENV_KEYS :
                         j < k => ~NonEmpty(environ[DATABASE_URL_ENV_KEYS[j]]) } }

\* the call gave the normalized form of u, or failed as the normalization did
GaveNormalized(u) ==
    /\ db_url.err = _normalize_database_url(u).err
    /\ db_url.url = _normalize_database_url(u).url

\* C24: _get_database_url returns the cached URL when the session holds one;
\* otherwise, when local_secrets.toml exists, the URL of that file (an error
\* when the file gives none); otherwise the first variable of
\* DATABASE_URL_ENV_KEYS that is set and not empty; otherwise it raises.  A
\* call that returns leaves the returned URL in the cache, a call that
\* raises leaves the cache as it was.
C24_ResolutionOrder ==
    db_url.called =>
        /\ IF NonEmpty(db_url.cached)
           THEN db_url.err = "none" /\ db_url.url = db_url.cached
           ELSE IF local_secrets.state # "absent"
           THEN IF FileUrls = {} THEN db_url.err = "RuntimeError"
                ELSE \A u \in FileUrls : GaveNormalized(u)
           ELSE IF EnvUrls = {} THEN db_url.err = "RuntimeError"
                ELSE \A u \in EnvUrls : GaveNormalized(u)
        /\ db_url.err = "none" => (db_url.url # None /\ session_state = db_url.url)
        /\ db_url.err # "none" => (db_url.url = None /\ session_state = db_url.cached)

\* the session holds a URL taken from POSTGRES_URL; since then the secrets
\* file has come to hold a URL and DATABASE_URL another: the cached one is
\* returned
C24_Witness ==
    /\ db_url.called /\ db_url.err = "none"
    /\ db_url.cached = Some(<<Canonical, "POSTGRES_URL", "?", "sslmode=", "require">>)
    /\ db_url.url = db_url.cached
    /\ FileUrls # {}
    /\ environ["DATABASE_URL"] = Some(<<"postgresql://", "u@h/db">>)

PostgresSchemes ==
    {"postgres://", "postgresql://", "postgresql+asyncpg://", "postgresql+psycopg://",
     "postgresql+psycopg2://"}

\* the URL names sslmode among its parameters
SpecifiesSslmode(raw) ==
    \E i \in DOMAIN raw : i > 1 /\ Lower(raw[i]) = "sslmode=" /\ raw[i - 1] \in {"?", "&"}

\* C25: a URL with a PostgreSQL scheme comes out of the normalization with
\* the scheme postgresql+psycopg://, the rest as it was, and sslmode=require
\* appended exactly when it named no sslmode; a blank URL is rejected.
\* (Checked on the URL taken from DATABASE_URL with no cache and no file.)
C25_Normalization ==
    (db_url.called /\ db_url.cached = None /\ local_secrets.state = "absent"
       /\ NonEmpty(environ["DATABASE_URL"])) =>
        LET raw == RTrim(LTrim(environ["DATABASE_URL"][1]))
        IN  IF raw = << >> THEN db_url.err = "ValueError"
            ELSE Lower(raw[1]) \in PostgresSchemes =>
                    /\ db_url.err = "none"
                    /\ db_url.url =
                          Some(<<Canonical>> \o Tail(raw) \o
                               (IF SpecifiesSslmode(raw) THEN << >>
                                ELSE <<IF \E i \in DOMAIN raw : raw[i] = "?" THEN "&" ELSE "?",
                                       "sslmode=", "require">>))

(***************************************************************************)
(* Properties of the dashboard (specification DashSpec).                   *)
(***************************************************************************)
\* the step saved the dialog: the handler made its update_tag_config call
Saved(event) == handled'.event = event /\ now' = now + 1

\* C26: no step of the dashboard changes the description of an Automatic
\* tag: a Save of the Automatic-tag edit dialog calls update_tag_config
\* without a description and leaves every stored description as it was,
\* whereas a Save of the Manual-tag edit dialog that the store applies
\* leaves the edited tag with the description entered.
C26_AutomaticDescriptionKept ==
    [][ /\ \A o \in DOMAIN tag_config :
               o.tag_type = "A" =>
                   \E r \in DOMAIN tag_config' :
                       r.id = o.id /\ r.tag_type = "A" /\ r.description = o.description
        /\ Saved("save_auto_tag") =>
               /\ last'.op = "update_tag_config"
               /\ last'.args.tag_id = edit_auto_tag[1].id
               /\ last'.args.kw.description = None
               /\ \A o \in DOMAIN tag_config :
                      \E r \in DOMAIN tag_config' :
                          r.id = o.id /\ r.description = o.description
        /\ (Saved("save_manual_tag") /\ Applied(last'.conn)) =>
               /\ last'.args.tag_id = edit_manual_tag[1].id
               /\ last'.args.kw.description # None
               /\ \A r \in DOMAIN tag_config' :
                      r.id = edit_manual_tag[1].id =>
                          /\ r.tag_type = "M"
                          /\ r.description = last'.args.kw.description[1]
      ]_vars

\* the Automatic tag 1 was renamed through its dialog and kept its
\* description
C26_Witness ==
    /\ handled.event = "save_auto_tag"
    /\ last.conn = "ok"
    /\ last.args.kw.display_name = Some("VIP")
    /\ \E r \in DOMAIN tag_config :
           /\ r.id = 1 /\ r.tag_type = "A" /\ r.display_name = "VIP"
           /\ r.description = "set by the job"
           /\ r.updated_at > 0

Occurrences(list, p) == Cardinality({i \in DOMAIN list : list[i] = p})

\* C28: "Remove Selected" calls remove_client_tag once for the (client_id,
\* tag_id) of each selected row and for no other pair, in both grids.
C28_RemovesExactlySelected ==
    handled.event = "remove_selected" =>
        \A p \in Elements(handled.selected) \cup Elements(handled.calls) :
            Occurrences(handled.calls, p) = Occurrences(handled.selected, p)

\* C29: a click on a client's name in the client list leads to the detail
\* page of that client: client_id is set to the clicked id.
C29_ClickOpensClient ==
    handled.event = "click_name" => query_params.client_id = handled.clicked

============================================================================
